---- MODULE Spec2Model ----
(***************************************************************************)
(* NixPersist: the configuration-mutation engine (render, install, remove, *)
(* reload) of the rsyslog shell-directive, rsyslog omprog, apache log-pipe *)
(* and docker-compose mechanisms.                                          *)
(*                                                                         *)
(* Text is a sequence of one-character strings, indices are 0-based as in  *)
(* Go wherever an operator returns or takes an index.                      *)
(***************************************************************************)
EXTENDS Integers, Sequences, FiniteSets, TLC

VARIABLES
    variant,    \* which mechanism (and which revision of it) this host runs
    isRoot,     \* os.Geteuid() = 0
    exists,     \* the target configuration file exists
    file,       \* content of the target configuration file
    last,       \* the last Install/Remove call: inputs, result, what it did
    cmds,       \* external commands run by the last call, in order
    world,      \* what the host answered during the last call
    nops,       \* number of calls made so far
    rfun,       \* render specification: the function applied
    rin,        \* render specification: its input
    rout,       \* render specification: its output
    profile,    \* the AppArmor profile of rsyslogd: loaded, disable link present
    errs,       \* commands whose failure the error of the last call quotes
    race        \* two Install calls at once: where each one is and what it read

vars == <<variant, isRoot, exists, file, last, cmds, world, nops, rfun, rin, rout,
          profile, errs, race>>

(***************************************************************************)
(* Bounds of the model.                                                    *)
(***************************************************************************)
\* lines of the target file before the first operation
MaxLines == 1
\* Install/Remove calls in one run
MaxOps == 2
\* length of the strings given to the pure functions
MaxStrLen == 3

(***************************************************************************)
(* strings / bytes package helpers                                         *)
(***************************************************************************)
NL == "\n"
CR == "\r"
TAB == "\t"
QUOTE == "\""
BSLASH == "\\"

\* unicode.IsSpace restricted to the characters of the model
IsSpace(c) == c \in {" ", TAB, NL, CR}

Slice(s, a, b) == SubSeq(s, a + 1, b)

HasPrefix(s, p) == Len(s) >= Len(p) /\ SubSeq(s, 1, Len(p)) = p

HasSuffix(s, p) == Len(s) >= Len(p) /\ SubSeq(s, Len(s) - Len(p) + 1, Len(s)) = p

RECURSIVE IndexFrom(_, _, _)
IndexFrom(s, sub, i) ==
    IF i + Len(sub) > Len(s) THEN -1
    ELSE IF SubSeq(s, i + 1, i + Len(sub)) = sub THEN i
    ELSE IndexFrom(s, sub, i + 1)

\* strings.Index: 0-based position of the first occurrence, -1 when absent
Index(s, sub) == IndexFrom(s, sub, 0)

Contains(s, sub) == Index(s, sub) # -1

ContainsAny(s, chars) == \E i \in 1..Len(s) : s[i] \in chars

RECURSIVE TrimLeftSpace(_)
TrimLeftSpace(s) ==
    IF s # <<>> /\ IsSpace(Head(s)) THEN TrimLeftSpace(Tail(s)) ELSE s

RECURSIVE TrimRightSpace(_)
TrimRightSpace(s) ==
    IF s # <<>> /\ IsSpace(s[Len(s)]) THEN TrimRightSpace(SubSeq(s, 1, Len(s) - 1)) ELSE s

TrimSpace(s) == TrimRightSpace(TrimLeftSpace(s))

\* strings.TrimLeft(s, "\n")
RECURSIVE TrimLeftNL(_)
TrimLeftNL(s) == IF s # <<>> /\ Head(s) = NL THEN TrimLeftNL(Tail(s)) ELSE s

\* strings.Split(s, "\n"): always at least one element
RECURSIVE Split(_)
Split(s) ==
    LET i == Index(s, <<NL>>)
    IN  IF i = -1 THEN <<s>>
        ELSE <<Slice(s, 0, i)>> \o Split(Slice(s, i + 1, Len(s)))

\* strings.Join(lines, "\n")
RECURSIVE Join(_)
Join(lines) ==
    IF lines = <<>> THEN <<>>
    ELSE IF Len(lines) = 1 THEN lines[1]
    ELSE lines[1] \o <<NL>> \o Join(Tail(lines))

\* strings.ReplaceAll for a non-empty old: non-overlapping, left to right
RECURSIVE ReplaceAll(_, _, _)
ReplaceAll(s, old, new) ==
    IF s = <<>> THEN <<>>
    ELSE IF HasPrefix(s, old) THEN new \o ReplaceAll(Slice(s, Len(old), Len(s)), old, new)
    ELSE <<Head(s)>> \o ReplaceAll(Tail(s), old, new)

(***************************************************************************)
(* The host: what the file system and the external commands answer during  *)
(* one call.  fault names the system call that fails ("none": none does);  *)
(* the other fields say which tools are on PATH and which verbs succeed.   *)
(***************************************************************************)
\* rsyslog calls: systemctl or service, reload then restart
RsyslogWorlds(faults) ==
    {w \in [fault : faults, systemctl : BOOLEAN, service : BOOLEAN,
            reloadOk : BOOLEAN, restartOk : BOOLEAN] :
        w.fault # "none" => (w.systemctl /\ w.service /\ w.reloadOk /\ w.restartOk)}

\* apache calls: systemctl restart only
ApacheWorlds(faults) ==
    {w \in [fault : faults, systemctl : BOOLEAN, restartOk : BOOLEAN] :
        w.fault # "none" => (w.systemctl /\ w.restartOk)}

\* os.WriteFile: open with O_TRUNC, then write; not atomic
WriteFile(old, oldExists, data, fault) ==
    CASE fault = "open"  -> [err |-> TRUE, exists |-> oldExists, file |-> old]
      [] fault = "write" -> [err |-> TRUE, exists |-> TRUE, file |-> <<>>]
      [] OTHER           -> [err |-> FALSE, exists |-> TRUE, file |-> data]

(***************************************************************************)
(* rsyslog: service reload                                                 *)
(***************************************************************************)
\* the restart fallback's failure dropped
reloadRsyslogLenient(w) ==
    IF w.systemctl THEN
        IF w.reloadOk THEN [err |-> FALSE, cmds |-> <<"systemctl reload rsyslog">>, msgs |-> <<>>]
        ELSE [err |-> FALSE,
              cmds |-> <<"systemctl reload rsyslog", "systemctl restart rsyslog">>,
              msgs |-> <<>>]
    ELSE IF w.service THEN
        IF w.reloadOk THEN [err |-> FALSE, cmds |-> <<"service rsyslog reload">>, msgs |-> <<>>]
        ELSE [err |-> ~w.restartOk,
              cmds |-> <<"service rsyslog reload", "service rsyslog restart">>,
              msgs |-> IF w.restartOk THEN <<>> ELSE <<"service rsyslog restart">>]
    ELSE [err |-> TRUE, cmds |-> <<>>, msgs |-> <<>>]

\* the service commands tried as well once both systemctl verbs have failed
reloadRsyslogBothManagers(w) ==
    IF w.systemctl THEN
        IF w.reloadOk THEN [err |-> FALSE, cmds |-> <<"systemctl reload rsyslog">>, msgs |-> <<>>]
        ELSE IF w.restartOk THEN
            [err |-> FALSE,
             cmds |-> <<"systemctl reload rsyslog", "systemctl restart rsyslog">>,
             msgs |-> <<>>]
        ELSE [err |-> TRUE,
              cmds |-> <<"systemctl reload rsyslog", "systemctl restart rsyslog",
                         "service rsyslog reload", "service rsyslog restart">>,
              msgs |-> <<"service rsyslog restart">>]
    ELSE IF w.service THEN
        IF w.reloadOk THEN [err |-> FALSE, cmds |-> <<"service rsyslog reload">>, msgs |-> <<>>]
        ELSE [err |-> ~w.restartOk,
              cmds |-> <<"service rsyslog reload", "service rsyslog restart">>,
              msgs |-> IF w.restartOk THEN <<>> ELSE <<"service rsyslog restart">>]
    ELSE [err |-> TRUE, cmds |-> <<>>, msgs |-> <<>>]

\* reloadRsyslog: err, the commands run in order, and msgs, the commands whose
\* failure (error and output) the returned error quotes
reloadRsyslog(w) ==
    IF w.systemctl THEN
        IF w.reloadOk THEN [err |-> FALSE, cmds |-> <<"systemctl reload rsyslog">>, msgs |-> <<>>]
        ELSE [err |-> ~w.restartOk,
              cmds |-> <<"systemctl reload rsyslog", "systemctl restart rsyslog">>,
              msgs |-> IF w.restartOk THEN <<>> ELSE <<"systemctl restart rsyslog">>]
    ELSE IF w.service THEN
        IF w.reloadOk THEN [err |-> FALSE, cmds |-> <<"service rsyslog reload">>, msgs |-> <<>>]
        ELSE [err |-> ~w.restartOk,
              cmds |-> <<"service rsyslog reload", "service rsyslog restart">>,
              msgs |-> IF w.restartOk THEN <<>> ELSE <<"service rsyslog restart">>]
    ELSE [err |-> TRUE, cmds |-> <<>>, msgs |-> <<>>]

(***************************************************************************)
(* rsyslog shell directive (exact-line revision)                           *)
(***************************************************************************)
ShellPrefix == <<":", "m", "s", "g", ",", " ", "c", "o", "n", "t", "a", "i", "n", "s", ",", " ", QUOTE>>

ShellValidate(p) ==
    IF TrimSpace(p.Trigger) = <<>> THEN "Trigger is required"
    ELSE IF TrimSpace(p.Payload) = <<>> THEN "Payload is required"
    ELSE IF Contains(p.Trigger, <<NL>>) THEN "Trigger must not contain newlines"
    ELSE IF Contains(p.Payload, <<NL>>) THEN "Payload must not contain newlines"
    ELSE ""

RenderShellConfig(p) ==
    IF ShellValidate(p) # "" THEN [err |-> ShellValidate(p), text |-> <<>>]
    ELSE LET escapedTrigger == ReplaceAll(p.Trigger, <<QUOTE>>, <<BSLASH, BSLASH, QUOTE>>)
             line == ShellPrefix \o escapedTrigger \o <<QUOTE, " ", "^">> \o TrimSpace(p.Payload)
         IN  [err |-> "", text |-> line \o <<NL>>]

shellMarkerStart == <<"#", " ", "B", "E", "G", "I", "N", " ", "N", "i", "x", "P", "e", "r", "s", "i", "s", "t", " ", "s", "h", "e", "l", "l", " ", "e", "x", "e", "c", "u", "t", "e">>
shellMarkerEnd == <<"#", " ", "E", "N", "D", " ", "N", "i", "x", "P", "e", "r", "s", "i", "s", "t", " ", "s", "h", "e", "l", "l", " ", "e", "x", "e", "c", "u", "t", "e">>

\* RenderShellConfig of the marker revision: strings.Join of the start marker,
\* the directive, the end marker and "" with "\n"
ShellMarkerRenderConfig(p) ==
    IF ShellValidate(p) # "" THEN [err |-> ShellValidate(p), text |-> <<>>]
    ELSE LET escapedTrigger == ReplaceAll(p.Trigger, <<QUOTE>>, <<BSLASH, BSLASH, QUOTE>>)
             line == ShellPrefix \o escapedTrigger \o <<QUOTE, " ", "^">> \o TrimSpace(p.Payload)
         IN  [err |-> "", text |-> Join(<<shellMarkerStart, line, shellMarkerEnd, <<>>>>)]

\* the comparison made against the directive with its newline still on
hasShellDirectiveUntrimmed(content, directive) ==
    LET lines == Split(content)
    IN  \E i \in 1..Len(lines) : TrimSpace(lines[i]) = directive \o <<NL>>

hasShellDirective(content, directive) ==
    LET lines == Split(content)
    IN  \E i \in 1..Len(lines) : TrimSpace(lines[i]) = directive

isShellDirective(l) ==
    LET line == TrimSpace(l)
    IN  IF ~HasPrefix(line, ShellPrefix) THEN FALSE
        ELSE LET rest == Slice(line, Len(ShellPrefix), Len(line))
                 quoteIdx == Index(rest, <<QUOTE>>)
             IN  IF quoteIdx = -1 THEN FALSE
                 ELSE LET action == TrimSpace(Slice(rest, quoteIdx + 1, Len(rest)))
                      IN  IF ~HasPrefix(action, <<"^">>) THEN FALSE
                          ELSE TrimSpace(Tail(action)) # <<>>

\* the loop taking out every line that is a directive, not the first one only
RECURSIVE KeepLinesEveryMatch(_, _, _, _)
KeepLinesEveryMatch(lines, isDir, i, removed) ==
    IF i > Len(lines) THEN <<>>
    ELSE IF isDir[i] THEN
        IF i + 1 <= Len(lines) /\ TrimSpace(lines[i + 1]) = <<>>
        THEN KeepLinesEveryMatch(lines, isDir, i + 2, TRUE)
        ELSE KeepLinesEveryMatch(lines, isDir, i + 1, TRUE)
    ELSE <<lines[i]>> \o KeepLinesEveryMatch(lines, isDir, i + 1, removed)

\* the loop of removeShellDirective / removeCustomLogDirective from line i
\* (1-based) on: the lines kept; isDir[i] says whether line i is a directive,
\* removed whether a line was removed already
RECURSIVE KeepLines(_, _, _, _)
KeepLines(lines, isDir, i, removed) ==
    IF i > Len(lines) THEN <<>>
    ELSE IF ~removed /\ isDir[i] THEN
        IF i + 1 <= Len(lines) /\ TrimSpace(lines[i + 1]) = <<>>
        THEN KeepLines(lines, isDir, i + 2, TRUE)
        ELSE KeepLines(lines, isDir, i + 1, TRUE)
    ELSE <<lines[i]>> \o KeepLines(lines, isDir, i + 1, removed)

RECURSIVE DropTrailingBlank(_)
DropTrailingBlank(lines) ==
    IF lines # <<>> /\ TrimSpace(lines[Len(lines)]) = <<>>
    THEN DropTrailingBlank(SubSeq(lines, 1, Len(lines) - 1))
    ELSE lines

removeShellDirective(content) ==
    LET lines == Split(content)
        isDir == [i \in 1..Len(lines) |-> isShellDirective(lines[i])]
        removed == \E i \in 1..Len(lines) : isDir[i]
        result == DropTrailingBlank(KeepLines(lines, isDir, 1, FALSE))
    IN  IF ~removed THEN [text |-> content, found |-> FALSE]
        ELSE IF result = <<>> THEN [text |-> <<>>, found |-> TRUE]
        ELSE [text |-> Join(result) \o <<NL>>, found |-> TRUE]

ShellInstallFaults == {"none", "mkdir", "read", "open", "nl", "cfg"}
ShellRemoveFaults == {"none", "read", "open", "write"}

\* InstallShell(cfg, dest): the outcome under each behaviour of the host
InstallShell(cfg, root, ex, content) ==
    LET existing == IF ex THEN content ELSE <<>>
        dup == hasShellDirective(existing, TrimSpace(cfg))
        needNL == Len(existing) > 0 /\ ~HasSuffix(existing, <<NL>>)
        withNL == IF needNL THEN existing \o <<NL>> ELSE existing
        post == withNL \o cfg
        same(res) == [res |-> res, exists |-> ex, file |-> content, cmds |-> <<>>, post |-> post]
    IN  [w \in RsyslogWorlds(ShellInstallFaults) |->
          IF ~root THEN same("privilege")
          ELSE IF cfg = <<>> THEN same("empty_cfg")
          ELSE IF w.fault = "mkdir" THEN same("mkdir")
          ELSE IF ex /\ w.fault = "read" THEN same("read")
          ELSE IF dup THEN same("conflict")
          ELSE IF w.fault = "open" THEN same("open")
          ELSE IF needNL /\ w.fault = "nl" THEN
              [res |-> "append_newline", exists |-> TRUE, file |-> existing,
               cmds |-> <<>>, post |-> post]
          ELSE IF w.fault = "cfg" THEN
              [res |-> "append_cfg", exists |-> TRUE, file |-> withNL,
               cmds |-> <<>>, post |-> post]
          ELSE LET rl == reloadRsyslog(w)
               IN  [res |-> IF rl.err THEN "reload" ELSE "ok", exists |-> TRUE,
                    file |-> post, cmds |-> rl.cmds, post |-> post]]

\* RemoveShell(dest): the outcome under each behaviour of the host
RemoveShell(root, ex, content) ==
    LET rm == removeShellDirective(content)
        same(res) == [res |-> res, exists |-> ex, file |-> content, cmds |-> <<>>,
                      post |-> rm.text]
    IN  [w \in RsyslogWorlds(ShellRemoveFaults) |->
          IF ~root THEN same("privilege")
          ELSE IF ~ex \/ w.fault = "read" THEN same("read")
          ELSE IF ~rm.found THEN same("not_found")
          ELSE LET wr == WriteFile(content, ex, rm.text, w.fault)
                   rl == reloadRsyslog(w)
               IN  IF wr.err THEN
                       [res |-> "write", exists |-> wr.exists, file |-> wr.file,
                        cmds |-> <<>>, post |-> rm.text]
                   ELSE [res |-> IF rl.err THEN "reload" ELSE "ok", exists |-> TRUE,
                         file |-> wr.file, cmds |-> rl.cmds, post |-> rm.text]]

(***************************************************************************)
(* apache log pipe: parameters and rendering (both revisions)              *)
(***************************************************************************)
startMarker == <<"#", " ", "B", "E", "G", "I", "N", " ", "N", "i", "x", "P", "e", "r", "s", "i", "s", "t", " ", "a", "p", "a", "c", "h", "e", "-", "l", "o", "g">>
endMarker == <<"#", " ", "E", "N", "D", " ", "N", "i", "x", "P", "e", "r", "s", "i", "s", "t", " ", "a", "p", "a", "c", "h", "e", "-", "l", "o", "g">>
logFormat == <<"e", "r", "r", "o", "r">>
CustomLogPrefix == <<"C", "u", "s", "t", "o", "m", "L", "o", "g", " ", QUOTE, "|">>

\* the checks made on the payload as given, not on the trimmed one
ApacheValidateUntrimmed(p) ==
    LET payload == p.Payload
    IN  IF TrimSpace(payload) = <<>> THEN "payload is required"
        ELSE IF Contains(payload, <<NL>>) THEN "payload must not contain newlines"
        ELSE IF ContainsAny(payload, {QUOTE, "<", ">"})
             THEN "payload must not contain quotes or angle brackets"
        ELSE IF ~HasPrefix(payload, <<"/">>) THEN "payload must be an absolute path"
        ELSE ""

ApacheValidate(p) ==
    LET payload == TrimSpace(p.Payload)
    IN  IF payload = <<>> THEN "payload is required"
        ELSE IF Contains(payload, <<NL>>) THEN "payload must not contain newlines"
        ELSE IF ContainsAny(payload, {QUOTE, "<", ">"})
             THEN "payload must not contain quotes or angle brackets"
        ELSE IF ~HasPrefix(payload, <<"/">>) THEN "payload must be an absolute path"
        ELSE ""

\* fmt.Sprintf("CustomLog \"|%s\" %s\n", strings.TrimSpace(p.Payload), logFormat)
CustomLogLine(p) ==
    CustomLogPrefix \o TrimSpace(p.Payload) \o <<QUOTE, " ">> \o logFormat \o <<NL>>

\* RenderConfig of the marker revision
ApacheRenderConfig(p) ==
    IF ApacheValidate(p) # "" THEN [err |-> ApacheValidate(p), text |-> <<>>]
    ELSE [err |-> "",
          text |-> startMarker \o <<NL>> \o CustomLogLine(p) \o endMarker \o <<NL>>]

\* RenderConfig of the exact-line revision
ApacheLineRenderConfig(p) ==
    IF ApacheValidate(p) # "" THEN [err |-> ApacheValidate(p), text |-> <<>>]
    ELSE [err |-> "", text |-> CustomLogLine(p)]

restartApache(w) ==
    IF ~w.systemctl THEN [err |-> TRUE, cmds |-> <<>>]
    ELSE [err |-> ~w.restartOk, cmds |-> <<"systemctl restart apache2">>]

ApacheFaults == {"none", "stat", "read", "open", "write"}

\* the restart run whether or not it was asked for
WriteAndRestartAlways(ex, content, post, restart, w) ==
    LET wr == WriteFile(content, ex, post, w.fault)
        rs == restartApache(w)
    IN  IF wr.err THEN
            [res |-> "write", exists |-> wr.exists, file |-> wr.file,
             cmds |-> <<>>, post |-> post]
        ELSE [res |-> IF rs.err THEN "restart" ELSE "ok", exists |-> TRUE,
              file |-> wr.file, cmds |-> rs.cmds, post |-> post]

\* the tail shared by Install and Remove of both revisions: os.WriteFile of the
\* new content, then the restart when asked for
WriteAndRestart(ex, content, post, restart, w) ==
    LET wr == WriteFile(content, ex, post, w.fault)
        rs == restartApache(w)
    IN  IF wr.err THEN
            [res |-> "write", exists |-> wr.exists, file |-> wr.file,
             cmds |-> <<>>, post |-> post]
        ELSE IF restart THEN
            [res |-> IF rs.err THEN "restart" ELSE "ok", exists |-> TRUE,
             file |-> wr.file, cmds |-> rs.cmds, post |-> post]
        ELSE [res |-> "ok", exists |-> TRUE, file |-> wr.file, cmds |-> <<>>,
              post |-> post]

\* readConfig: "" when the file was read, else the error
readConfig(ex, w) ==
    IF ~ex THEN "missing"
    ELSE IF w.fault = "stat" THEN "stat"
    ELSE IF w.fault = "read" THEN "read"
    ELSE ""

(***************************************************************************)
(* apache log pipe, marker revision                                        *)
(***************************************************************************)
ApacheInstall(params, restart, ex, content) ==
    LET cfg == ApacheRenderConfig(params)
        present == Contains(content, startMarker)
        sep1 == IF Len(content) > 0 /\ ~HasSuffix(content, <<NL>>) THEN <<NL>> ELSE <<>>
        sep2 == IF Len(content \o sep1) > 0 THEN <<NL>> ELSE <<>>
        post == content \o sep1 \o sep2 \o cfg.text
        same(res) == [res |-> res, exists |-> ex, file |-> content, cmds |-> <<>>,
                      post |-> post]
    IN  [w \in ApacheWorlds(ApacheFaults) |->
          IF cfg.err # "" THEN same("validation")
          ELSE IF readConfig(ex, w) # "" THEN same(readConfig(ex, w))
          ELSE IF present THEN same("conflict")
          ELSE WriteAndRestart(ex, content, post, restart, w)]

\* the backward scan over blanks and tabs before the start marker
RECURSIVE SkipBlanksBack(_, _)
SkipBlanksBack(content, i) ==
    IF i >= 0 /\ content[i + 1] \in {" ", TAB} THEN SkipBlanksBack(content, i - 1) ELSE i

\* the forward scan over newlines and carriage returns after the end marker
RECURSIVE SkipNewlines(_, _)
SkipNewlines(content, j) ==
    IF j < Len(content) /\ content[j + 1] \in {NL, CR} THEN SkipNewlines(content, j + 1) ELSE j

\* the text Remove writes, given the 0-based start of the start marker and the
\* 0-based end (exclusive) of the end marker
CutBlock(content, start, end) ==
    LET i == SkipBlanksBack(content, start - 1)
        trimStart ==
            IF start > 0 /\ i >= 0 /\ content[i + 1] = NL
            THEN IF i > 0 /\ content[i] = NL THEN i - 1 ELSE i
            ELSE start
        trimEnd == SkipNewlines(content, end)
        result ==
            Slice(content, 0, trimStart) \o
            (IF trimEnd < Len(content)
             THEN <<NL>> \o TrimLeftNL(Slice(content, trimEnd, Len(content)))
             ELSE <<>>)
    IN  IF Len(result) > 0 /\ result[Len(result)] # NL THEN result \o <<NL>> ELSE result

ApacheRemove(restart, ex, content) ==
    LET start == Index(content, startMarker)
        rel == IF start = -1 THEN -1
               ELSE Index(Slice(content, start, Len(content)), endMarker)
        end == rel + start + Len(endMarker)
        post == IF start = -1 \/ rel = -1 THEN content ELSE CutBlock(content, start, end)
        same(res) == [res |-> res, exists |-> ex, file |-> content, cmds |-> <<>>,
                      post |-> post]
    IN  [w \in ApacheWorlds(ApacheFaults) |->
          IF readConfig(ex, w) # "" THEN same(readConfig(ex, w))
          ELSE IF start = -1 THEN same("not_found")
          ELSE IF rel = -1 THEN same("end_marker_missing")
          ELSE WriteAndRestart(ex, content, post, restart, w)]

(***************************************************************************)
(* apache log pipe, exact-line revision                                    *)
(***************************************************************************)
containsCustomLogDirective(content, directive) ==
    LET lines == Split(content)
    IN  \E i \in 1..Len(lines) : TrimSpace(lines[i]) = directive

isCustomLogDirective(l) ==
    LET line == TrimSpace(l)
    IN  HasPrefix(line, CustomLogPrefix) /\ HasSuffix(line, <<" ">> \o logFormat)

removeCustomLogDirective(content) ==
    LET lines == Split(content)
        isDir == [i \in 1..Len(lines) |-> isCustomLogDirective(lines[i])]
        removed == \E i \in 1..Len(lines) : isDir[i]
        joined == Join(DropTrailingBlank(KeepLines(lines, isDir, 1, FALSE)))
    IN  IF ~removed THEN [text |-> content, found |-> FALSE]
        ELSE IF joined # <<>> THEN [text |-> joined \o <<NL>>, found |-> TRUE]
        ELSE [text |-> joined, found |-> TRUE]

ApacheLineInstall(params, restart, ex, content) ==
    LET cfg == ApacheLineRenderConfig(params)
        present == containsCustomLogDirective(content, TrimSpace(cfg.text))
        sep == IF Len(content) > 0 /\ ~HasSuffix(content, <<NL>>) THEN <<NL>> ELSE <<>>
        fin == IF ~HasSuffix(cfg.text, <<NL>>) THEN <<NL>> ELSE <<>>
        post == content \o sep \o cfg.text \o fin
        same(res) == [res |-> res, exists |-> ex, file |-> content, cmds |-> <<>>,
                      post |-> post]
    IN  [w \in ApacheWorlds(ApacheFaults) |->
          IF cfg.err # "" THEN same("validation")
          ELSE IF readConfig(ex, w) # "" THEN same(readConfig(ex, w))
          ELSE IF present THEN same("conflict")
          ELSE WriteAndRestart(ex, content, post, restart, w)]

ApacheLineRemove(restart, ex, content) ==
    LET rm == removeCustomLogDirective(content)
        same(res) == [res |-> res, exists |-> ex, file |-> content, cmds |-> <<>>,
                      post |-> rm.text]
    IN  [w \in ApacheWorlds(ApacheFaults) |->
          IF readConfig(ex, w) # "" THEN same(readConfig(ex, w))
          ELSE IF ~rm.found THEN same("not_found")
          ELSE WriteAndRestart(ex, content, rm.text, restart, w)]

(***************************************************************************)
(* rsyslog omprog drop-in: parameters and rendering                        *)
(***************************************************************************)
escapeQuotes(s) ==
    ReplaceAll(ReplaceAll(s, <<BSLASH, BSLASH>>, <<BSLASH, BSLASH, BSLASH, BSLASH>>),
               <<QUOTE>>, <<BSLASH, BSLASH, QUOTE>>)

\* fmt's %d of a natural number
RECURSIVE Itoa(_)
Itoa(n) ==
    LET digit(d) == <<"0", "1", "2", "3", "4", "5", "6", "7", "8", "9">>[d + 1]
    IN  IF n < 10 THEN <<digit(n)>> ELSE Itoa(n \div 10) \o <<digit(n % 10)>>

\* the check that a substring or a pattern is given left out
OmprogValidateAnyFilter(p) ==
    IF p.InputFile = <<>> THEN "InputFile is required"
    ELSE IF p.ProgramPath = <<>> THEN "ProgramPath is required"
    ELSE IF p.Tag = <<>> THEN "tag is required"
    ELSE IF p.UseRuleset /\ p.RulesetName = <<>>
         THEN "RulesetName is required when UseRuleset is true"
    ELSE ""

OmprogValidate(p) ==
    IF p.InputFile = <<>> THEN "InputFile is required"
    ELSE IF p.ProgramPath = <<>> THEN "ProgramPath is required"
    ELSE IF p.Tag = <<>> THEN "tag is required"
    ELSE IF p.UseRuleset /\ p.RulesetName = <<>>
         THEN "RulesetName is required when UseRuleset is true"
    ELSE IF p.FilterContains = <<>> /\ p.FilterRegex = <<>>
         THEN "at least one of FilterContains or FilterRegex must be set"
    ELSE ""

OmprogRenderConfig(p) ==
    LET modules ==
            (IF p.PollingInterval > 0
             THEN <<"m", "o", "d", "u", "l", "e", "(", "l", "o", "a", "d", "=", QUOTE, "i", "m", "f", "i", "l", "e", QUOTE, " ", "P", "o", "l", "l", "i", "n", "g", "I", "n", "t", "e", "r", "v", "a", "l", "=", QUOTE>> \o Itoa(p.PollingInterval) \o <<QUOTE, ")", NL>>
             ELSE <<"m", "o", "d", "u", "l", "e", "(", "l", "o", "a", "d", "=", QUOTE, "i", "m", "f", "i", "l", "e", QUOTE, ")", NL>>)
            \o <<"m", "o", "d", "u", "l", "e", "(", "l", "o", "a", "d", "=", QUOTE, "o", "m", "p", "r", "o", "g", QUOTE, ")", NL, NL>>
        input ==
            <<"i", "n", "p", "u", "t", "(", NL>>
            \o <<TAB, "t", "y", "p", "e", "=", QUOTE, "i", "m", "f", "i", "l", "e", QUOTE, NL>>
            \o <<TAB, "F", "i", "l", "e", "=", QUOTE>> \o p.InputFile \o <<QUOTE, NL>>
            \o <<TAB, "T", "a", "g", "=", QUOTE>> \o p.Tag \o <<QUOTE, NL>>
            \o (IF p.Severity # <<>>
                THEN <<TAB, "S", "e", "v", "e", "r", "i", "t", "y", "=", QUOTE>> \o p.Severity \o <<QUOTE, NL>>
                ELSE <<>>)
            \o (IF p.Facility # <<>>
                THEN <<TAB, "F", "a", "c", "i", "l", "i", "t", "y", "=", QUOTE>> \o p.Facility \o <<QUOTE, NL>>
                ELSE <<>>)
            \o (IF p.AddMetadata
                THEN <<TAB, "a", "d", "d", "M", "e", "t", "a", "d", "a", "t", "a", "=", QUOTE, "o", "n", QUOTE, NL>>
                ELSE <<>>)
            \o <<TAB, "r", "e", "o", "p", "e", "n", "O", "n", "T", "r", "u", "n", "c", "a", "t", "e", "=", QUOTE, "o", "n", QUOTE, NL>>
            \o (IF p.StateFile # <<>>
                THEN <<TAB, "S", "t", "a", "t", "e", "F", "i", "l", "e", "=", QUOTE>> \o p.StateFile \o <<QUOTE, NL>>
                ELSE <<>>)
            \o (IF p.UseRuleset
                THEN <<TAB, "r", "u", "l", "e", "s", "e", "t", "=", QUOTE>> \o p.RulesetName \o <<QUOTE, NL>>
                ELSE <<>>)
            \o <<")", NL, NL>>
        open ==
            IF p.UseRuleset
            THEN <<"r", "u", "l", "e", "s", "e", "t", "(", "n", "a", "m", "e", "=", QUOTE>> \o p.RulesetName \o <<QUOTE, ")", " ", "{", NL>>
                 \o <<" ", " ", " ", " ", "i", "f", " ", "(">>
            ELSE <<"i", "f", " ", "(">>
        tagCond ==
            IF p.FilterByTag
            THEN <<"$", "s", "y", "s", "l", "o", "g", "t", "a", "g", " ", "c", "o", "n", "t", "a", "i", "n", "s", " ", "'">> \o escapeQuotes(p.Tag) \o <<"'", ")">>
            ELSE <<>>
        msgCond ==
            IF p.FilterContains # <<>>
            THEN (IF p.FilterByTag THEN <<" ", "a", "n", "d", " ">> ELSE <<>>)
                 \o <<"(", "$", "m", "s", "g", " ", "c", "o", "n", "t", "a", "i", "n", "s", " ", "'">> \o escapeQuotes(p.FilterContains) \o <<"'", ")">>
            ELSE <<>>
        reCond ==
            IF p.FilterRegex # <<>>
            THEN (IF p.FilterByTag \/ p.FilterContains # <<>> THEN <<" ", "o", "r", " ">> ELSE <<>>)
                 \o <<"r", "e", "_", "m", "a", "t", "c", "h", "(", "$", "m", "s", "g", ",", " ", QUOTE>> \o escapeQuotes(p.FilterRegex) \o <<QUOTE, ")">>
            ELSE <<>>
        wrote == p.FilterByTag \/ p.FilterContains # <<>> \/ p.FilterRegex # <<>>
        action ==
            <<" ", " ", " ", " ", " ", " ", " ", " ", "a", "c", "t", "i", "o", "n", "(", "t", "y", "p", "e", "=", QUOTE, "o", "m", "p", "r", "o", "g", QUOTE, " ", "b", "i", "n", "a", "r", "y", "=", QUOTE>> \o escapeQuotes(p.ProgramPath)
            \o (IF p.ProgramArgs # <<>> THEN <<" ">> \o escapeQuotes(p.ProgramArgs) ELSE <<>>)
            \o <<QUOTE, ")", NL>>
        close ==
            IF p.UseRuleset THEN <<" ", " ", " ", " ", "}", NL>> \o <<"}", NL>> ELSE <<"}", NL>>
    IN  IF OmprogValidate(p) # "" THEN [err |-> OmprogValidate(p), text |-> <<>>]
        ELSE IF ~wrote THEN [err |-> "no filter expression constructed", text |-> <<>>]
        ELSE [err |-> "",
              text |-> modules \o input \o open \o tagCond \o msgCond \o reCond
                       \o <<" ", "t", "h", "e", "n", " ", "{", NL>> \o action \o close]

(***************************************************************************)
(* docker-compose: parameters and rendering                                *)
(***************************************************************************)
isValidServiceName(name) ==
    LET allowed == {"a", "b", "c", "d", "e", "f", "g", "h", "i", "j", "k", "l", "m", "n", "o", "p", "q", "r", "s", "t", "u", "v", "w", "x", "y", "z",
                    "A", "B", "C", "D", "E", "F", "G", "H", "I", "J", "K", "L", "M", "N", "O", "P", "Q", "R", "S", "T", "U", "V", "W", "X", "Y", "Z",
                    "0", "1", "2", "3", "4", "5", "6", "7", "8", "9", "-", "_"}
    IN  name # <<>> /\ \A i \in 1..Len(name) : name[i] \in allowed

ComposeValidate(p) ==
    IF TrimSpace(p.ServiceName) = <<>> THEN "ServiceName is required"
    ELSE IF ~isValidServiceName(p.ServiceName)
         THEN "ServiceName must contain only letters, numbers, dashes, or underscores"
    ELSE IF TrimSpace(p.Image) = <<>> THEN "Image is required"
    ELSE IF TrimSpace(p.PayloadCommand) = <<>> THEN "PayloadCommand is required"
    ELSE ""

ComposeRenderConfig(p) ==
    IF ComposeValidate(p) # "" THEN [err |-> ComposeValidate(p), text |-> <<>>]
    ELSE [err |-> "",
          text |->
            <<"#", " ", "g", "o", "p", "e", "r", "s", "i", "s", "t", "-", "g", "e", "n", "e", "r", "a", "t", "e", "d", " ", "d", "o", "c", "k", "e", "r", "-", "c", "o", "m", "p", "o", "s", "e", " ", "c", "o", "n", "f", "i", "g", "u", "r", "a", "t", "i", "o", "n", NL>>
            \o <<"v", "e", "r", "s", "i", "o", "n", ":", " ", QUOTE, "3", ".", "9", QUOTE, NL>>
            \o <<"s", "e", "r", "v", "i", "c", "e", "s", ":", NL>>
            \o <<" ", " ">> \o p.ServiceName \o <<":", NL>>
            \o <<" ", " ", " ", " ", "c", "o", "n", "t", "a", "i", "n", "e", "r", "_", "n", "a", "m", "e", ":", " ">> \o p.ServiceName \o <<NL>>
            \o <<" ", " ", " ", " ", "i", "m", "a", "g", "e", ":", " ">> \o p.Image \o <<NL>>
            \o <<" ", " ", " ", " ", "p", "r", "i", "v", "i", "l", "e", "g", "e", "d", ":", " ", "t", "r", "u", "e", NL>>
            \o <<" ", " ", " ", " ", "p", "i", "d", ":", " ", QUOTE, "h", "o", "s", "t", QUOTE, NL>>
            \o <<" ", " ", " ", " ", "n", "e", "t", "w", "o", "r", "k", "_", "m", "o", "d", "e", ":", " ", QUOTE, "h", "o", "s", "t", QUOTE, NL>>
            \o <<" ", " ", " ", " ", "v", "o", "l", "u", "m", "e", "s", ":", NL>>
            \o <<" ", " ", " ", " ", " ", " ", "-", " ", QUOTE, "/", ":", "/", "m", "n", "t", QUOTE, NL>>
            \o <<" ", " ", " ", " ", "c", "o", "m", "m", "a", "n", "d", ":", NL>>
            \o <<" ", " ", " ", " ", " ", " ", "-", " ", "/", "b", "i", "n", "/", "s", "h", NL>>
            \o <<" ", " ", " ", " ", " ", " ", "-", " ", "-", "c", NL>>
            \o <<" ", " ", " ", " ", " ", " ", "-", " ", "c", "h", "r", "o", "o", "t", " ", "/", "m", "n", "t", " ">> \o p.PayloadCommand \o <<NL>>
            \o <<" ", " ", " ", " ", "r", "e", "s", "t", "a", "r", "t", ":", " ", QUOTE, "a", "l", "w", "a", "y", "s", QUOTE, NL>>]

(***************************************************************************)
(* The inputs of the model                                                 *)
(***************************************************************************)
Variants == {"shell", "apache", "apacheLine"}

PlainLine == <<"S", "e", "r", "v", "e", "r", "N", "a", "m", "e", " ", "l", "o", "c", "a", "l", "h", "o", "s", "t">>
\* a rule of the administrator's own, of the shape of the shell directive
ForeignShellLine == ShellPrefix \o <<"x", QUOTE, " ", "^", "/", "o">>
\* a piped log of the administrator's own, of the shape of the CustomLog directive
ForeignCustomLog == CustomLogPrefix \o <<"/", "o", QUOTE, " ">> \o logFormat

LinePool(v) ==
    CASE v = "shell"      -> {PlainLine, <<>>, ForeignShellLine}
      [] v = "apache"     -> {PlainLine, <<>>, startMarker}
      [] v = "apacheLine" -> {PlainLine, <<>>, ForeignCustomLog}

SeqsUpTo(S, n) == UNION {[1..k -> S] : k \in 0..n}

\* the target file before the first operation: up to MaxLines lines, with or
\* without a final newline
InitialContents(v) ==
    {Join(ls) \o t : ls \in SeqsUpTo(LinePool(v), MaxLines), t \in {<<>>, <<NL>>}}

ShellParams ==
    { [Trigger |-> <<"t">>, Payload |-> <<"/", "p", " ">>],
      [Trigger |-> <<"a", QUOTE, "b">>, Payload |-> <<"/", "p">>],
      [Trigger |-> <<>>, Payload |-> <<"/", "p">>],
      [Trigger |-> <<"t">>, Payload |-> <<"/", "p", NL>>] }

ApacheLineParams ==
    { [Payload |-> <<"/", "p">>],
      [Payload |-> <<" ", "/", "q", NL>>],
      [Payload |-> <<"r", "e", "l">>] }

ApacheParams == ApacheLineParams \cup { [Payload |-> <<"/", "x">> \o endMarker] }

NoParams == [Payload |-> <<>>]

NoWorld == [fault |-> "none"]

\* no concurrent calls under way
NoRace == [orig |-> <<>>, writer |-> 0, proc |-> <<>>]

\* the rsyslogd profile as the distribution ships it: loaded, not disabled
Enforced == [loaded |-> TRUE, link |-> FALSE]

None ==
    [op |-> "none", res |-> "", params |-> NoParams, restart |-> FALSE,
     pre |-> <<>>, preExists |-> FALSE, post |-> <<>>]

(***************************************************************************)
(* The state machine: one action per command-line operation                *)
(***************************************************************************)
Init ==
    /\ variant \in Variants
    /\ isRoot \in (IF variant = "shell" THEN BOOLEAN ELSE {TRUE})
    /\ exists \in BOOLEAN
    /\ file \in (IF exists THEN InitialContents(variant) ELSE {<<>>})
    /\ last = None
    /\ cmds = <<>>
    /\ world = NoWorld
    /\ nops = 0
    /\ rfun = "none"
    /\ rin = <<>>
    /\ rout = [err |-> "", text |-> <<>>]
    /\ profile = Enforced
    /\ errs = <<>>
    /\ race = NoRace

\* what the caller of an operation observes: its name, arguments and result,
\* the file as it was before the call and the content the call meant to write
Called(op, params, restart, out) ==
    [op |-> op, res |-> out.res, params |-> params, restart |-> restart,
     pre |-> file, preExists |-> exists, post |-> out.post]

\* nixpersist rsyslog --install: RenderShellConfig, and InstallShell if it rendered
RenderAndInstallShell(p, root, ex, content) ==
    LET cfg == RenderShellConfig(p)
    IN  IF cfg.err # ""
        THEN [w \in {NoWorld} |->
                [res |-> "validation", exists |-> ex, file |-> content,
                 cmds |-> <<>>, post |-> content]]
        ELSE InstallShell(cfg.text, root, ex, content)

\* nixpersist rsyslog --install -t .. -p ..
ShellInstallStep ==
    /\ variant = "shell"
    /\ nops < MaxOps
    /\ \E p \in ShellParams :
         LET outs == RenderAndInstallShell(p, isRoot, exists, file)
         IN  \E w \in DOMAIN outs :
               LET Effect(out) ==
                   /\ world' = w
                   /\ exists' = out.exists
                   /\ file' = out.file
                   /\ cmds' = out.cmds
                   /\ last' = Called("install", p, FALSE, out)
               IN  Effect(outs[w])
    /\ nops' = nops + 1
    /\ UNCHANGED <<variant, isRoot, rfun, rin, rout, profile, errs, race>>

\* nixpersist rsyslog --remove
ShellRemoveStep ==
    /\ variant = "shell"
    /\ nops < MaxOps
    /\ LET outs == RemoveShell(isRoot, exists, file)
       IN  \E w \in DOMAIN outs :
             LET Effect(out) ==
                 /\ world' = w
                 /\ exists' = out.exists
                 /\ file' = out.file
                 /\ cmds' = out.cmds
                 /\ last' = Called("remove", NoParams, FALSE, out)
             IN  Effect(outs[w])
    /\ nops' = nops + 1
    /\ UNCHANGED <<variant, isRoot, rfun, rin, rout, profile, errs, race>>

\* /etc/apache2/apache2.conf belongs to root: the os.WriteFile of a caller who
\* is not root fails when it opens the file, unless an earlier call failed
Permitted(root, w) == root \/ w.fault \in {"stat", "read", "open"}

\* nixpersist apache-log --install -p .. [--no-restart], marker revision
ApacheInstallStep ==
    /\ variant = "apache"
    /\ nops < MaxOps
    /\ \E p \in ApacheParams, restart \in BOOLEAN :
         LET outs == ApacheInstall(p, restart, exists, file)
         IN  \E w \in {v \in DOMAIN outs : Permitted(isRoot, v)} :
               LET Effect(out) ==
                   /\ world' = w
                   /\ exists' = out.exists
                   /\ file' = out.file
                   /\ cmds' = out.cmds
                   /\ last' = Called("install", p, restart, out)
               IN  Effect(outs[w])
    /\ nops' = nops + 1
    /\ UNCHANGED <<variant, isRoot, rfun, rin, rout, profile, errs, race>>

\* nixpersist apache-log --remove [--no-restart], marker revision
ApacheRemoveStep ==
    /\ variant = "apache"
    /\ nops < MaxOps
    /\ \E restart \in BOOLEAN :
         LET outs == ApacheRemove(restart, exists, file)
         IN  \E w \in {v \in DOMAIN outs : Permitted(isRoot, v)} :
               LET Effect(out) ==
                   /\ world' = w
                   /\ exists' = out.exists
                   /\ file' = out.file
                   /\ cmds' = out.cmds
                   /\ last' = Called("remove", NoParams, restart, out)
               IN  Effect(outs[w])
    /\ nops' = nops + 1
    /\ UNCHANGED <<variant, isRoot, rfun, rin, rout, profile, errs, race>>

\* nixpersist apache-log --install, exact-line revision
ApacheLineInstallStep ==
    /\ variant = "apacheLine"
    /\ nops < MaxOps
    /\ \E p \in ApacheLineParams, restart \in BOOLEAN :
         LET outs == ApacheLineInstall(p, restart, exists, file)
         IN  \E w \in {v \in DOMAIN outs : Permitted(isRoot, v)} :
               LET Effect(out) ==
                   /\ world' = w
                   /\ exists' = out.exists
                   /\ file' = out.file
                   /\ cmds' = out.cmds
                   /\ last' = Called("install", p, restart, out)
               IN  Effect(outs[w])
    /\ nops' = nops + 1
    /\ UNCHANGED <<variant, isRoot, rfun, rin, rout, profile, errs, race>>

\* nixpersist apache-log --remove, exact-line revision
ApacheLineRemoveStep ==
    /\ variant = "apacheLine"
    /\ nops < MaxOps
    /\ \E restart \in BOOLEAN :
         LET outs == ApacheLineRemove(restart, exists, file)
         IN  \E w \in {v \in DOMAIN outs : Permitted(isRoot, v)} :
               LET Effect(out) ==
                   /\ world' = w
                   /\ exists' = out.exists
                   /\ file' = out.file
                   /\ cmds' = out.cmds
                   /\ last' = Called("remove", NoParams, restart, out)
               IN  Effect(outs[w])
    /\ nops' = nops + 1
    /\ UNCHANGED <<variant, isRoot, rfun, rin, rout, profile, errs, race>>

Next ==
    \/ ShellInstallStep
    \/ ShellRemoveStep
    \/ ApacheInstallStep
    \/ ApacheRemoveStep
    \/ ApacheLineInstallStep
    \/ ApacheLineRemoveStep

Spec == Init /\ [][Next]_vars

(***************************************************************************)
(* The same operations called by a user who is not root                    *)
(***************************************************************************)
InitUnpriv ==
    /\ variant \in Variants
    /\ isRoot = FALSE
    /\ exists \in BOOLEAN
    /\ file \in (IF exists THEN InitialContents(variant) ELSE {<<>>})
    /\ last = None
    /\ cmds = <<>>
    /\ world = NoWorld
    /\ nops = 0
    /\ rfun = "none"
    /\ rin = <<>>
    /\ rout = [err |-> "", text |-> <<>>]
    /\ profile = Enforced
    /\ errs = <<>>
    /\ race = NoRace

SpecUnpriv == InitUnpriv /\ [][Next]_vars

(***************************************************************************)
(* The renderers on their own: one call of one renderer on one input       *)
(***************************************************************************)
EscapeInputs == SeqsUpTo({BSLASH, QUOTE, "a"}, MaxStrLen)

PayloadInputs ==
    {[Payload |-> s] : s \in SeqsUpTo({"/", "a", " ", NL, QUOTE, "<", ">"}, MaxStrLen)}

ShellRenderInputs ==
    [Trigger : {<<"t">>, <<"a", QUOTE, "b">>, <<>>, <<" ">>, <<"a", NL, "b">>, <<"t", NL>>,
                <<"h", "a", "c", "k", "e", "r">>},
     Payload : {<<"/", "p">>, <<" ", "/", "p", " ">>, <<>>, <<"/", "p", NL>>,
                <<"/", "p", NL, "q">>,
                <<"/", "p", "a", "t", "h", "/", "t", "o", "/", "p", "a", "y", "l", "o", "a", "d">>}]

ComposeInputs ==
    [ServiceName : {<<"s", "-", "1">>, <<>>, <<"a", " ", "b">>, <<"s", NL>>, <<"s", NL, "t">>},
     Image : {<<"i">>, <<>>, <<"i", NL>>, <<"i", NL, "j">>},
     PayloadCommand : {<<"/", "c">>, <<" ">>, <<"/", "c", NL>>, <<"/", "c", NL, "d">>}]

OmprogInputs ==
    {[InputFile |-> f, ProgramPath |-> b, ProgramArgs |-> a, Tag |-> t,
      FilterByTag |-> ft, FilterContains |-> fc, FilterRegex |-> fr,
      UseRuleset |-> ur, RulesetName |-> rn, PollingInterval |-> pi,
      Severity |-> IF d THEN <<"i", "n", "f", "o">> ELSE <<>>,
      Facility |-> IF d THEN <<"l", "o", "c", "a", "l", "6">> ELSE <<>>,
      AddMetadata |-> d,
      StateFile |-> IF d THEN <<"s", "t">> ELSE <<>>] :
        f \in {<<"/", "l">>, <<>>},
        b \in {<<"/", "b">>, <<>>, <<"/", QUOTE>>},
        a \in {<<>>, <<"-", "v">>},
        t \in {<<"g">>, <<>>, <<"g", NL, "h">>},
        ft \in BOOLEAN,
        fc \in {<<>>, <<"x">>, <<"x", NL, "y">>},
        fr \in {<<>>, <<"r">>},
        ur \in BOOLEAN,
        rn \in {<<>>, <<"n">>},
        pi \in {0, 10},
        d \in BOOLEAN}

InitRender ==
    /\ variant = "shell"
    /\ isRoot = TRUE
    /\ exists = FALSE
    /\ file = <<>>
    /\ last = None
    /\ cmds = <<>>
    /\ world = NoWorld
    /\ nops = 0
    /\ rfun = "none"
    /\ rin = <<>>
    /\ rout = [err |-> "", text |-> <<>>]
    /\ profile = Enforced
    /\ errs = <<>>
    /\ race = NoRace

EscapeQuotesCall ==
    /\ rfun = "none"
    /\ \E s \in EscapeInputs :
         /\ rin' = s
         /\ rout' = [err |-> "", text |-> escapeQuotes(s)]
    /\ rfun' = "escapeQuotes"
    /\ UNCHANGED <<variant, isRoot, exists, file, last, cmds, world, nops, profile, errs, race>>

ApacheRenderCall ==
    /\ rfun = "none"
    /\ \E p \in PayloadInputs :
         /\ rin' = p
         /\ rout' = ApacheRenderConfig(p)
    /\ rfun' = "apache"
    /\ UNCHANGED <<variant, isRoot, exists, file, last, cmds, world, nops, profile, errs, race>>

ApacheLineRenderCall ==
    /\ rfun = "none"
    /\ \E p \in PayloadInputs :
         /\ rin' = p
         /\ rout' = ApacheLineRenderConfig(p)
    /\ rfun' = "apacheLine"
    /\ UNCHANGED <<variant, isRoot, exists, file, last, cmds, world, nops, profile, errs, race>>

ShellRenderCall ==
    /\ rfun = "none"
    /\ \E p \in ShellRenderInputs :
         /\ rin' = p
         /\ rout' = RenderShellConfig(p)
    /\ rfun' = "shell"
    /\ UNCHANGED <<variant, isRoot, exists, file, last, cmds, world, nops, profile, errs, race>>

ShellMarkerRenderCall ==
    /\ rfun = "none"
    /\ \E p \in ShellRenderInputs :
         /\ rin' = p
         /\ rout' = ShellMarkerRenderConfig(p)
    /\ rfun' = "shellMarker"
    /\ UNCHANGED <<variant, isRoot, exists, file, last, cmds, world, nops, profile, errs, race>>

OmprogRenderCall ==
    /\ rfun = "none"
    /\ \E p \in OmprogInputs :
         /\ rin' = p
         /\ rout' = OmprogRenderConfig(p)
    /\ rfun' = "omprog"
    /\ UNCHANGED <<variant, isRoot, exists, file, last, cmds, world, nops, profile, errs, race>>

ComposeRenderCall ==
    /\ rfun = "none"
    /\ \E p \in ComposeInputs :
         /\ rin' = p
         /\ rout' = ComposeRenderConfig(p)
    /\ rfun' = "compose"
    /\ UNCHANGED <<variant, isRoot, exists, file, last, cmds, world, nops, profile, errs, race>>

NextRender ==
    \/ EscapeQuotesCall
    \/ ApacheRenderCall
    \/ ApacheLineRenderCall
    \/ ShellRenderCall
    \/ ShellMarkerRenderCall
    \/ OmprogRenderCall
    \/ ComposeRenderCall

SpecRender == InitRender /\ [][NextRender]_vars

(***************************************************************************)
(* AppArmor: the profile of rsyslogd                                       *)
(***************************************************************************)
DisableFaults == {"aa_lookpath", "aa_unload", "aa_link"}
EnableFaults == {"aa_lookpath", "aa_unlink", "aa_load"}

UnloadCmd == "apparmor_parser -R /etc/apparmor.d/usr.sbin.rsyslogd"
LinkCmd == "ln -sf /etc/apparmor.d/usr.sbin.rsyslogd /etc/apparmor.d/disable/"
LoadCmd == "apparmor_parser -r /etc/apparmor.d/usr.sbin.rsyslogd"

\* a failure of ln taken for success
DisableRsyslogProfileNoLinkCheck(prof, w) ==
    IF w.fault = "aa_lookpath" THEN [err |-> TRUE, profile |-> prof, cmds |-> <<>>, msgs |-> <<>>]
    ELSE IF w.fault = "aa_unload" THEN
        [err |-> TRUE, profile |-> prof, cmds |-> <<UnloadCmd>>, msgs |-> <<UnloadCmd>>]
    ELSE IF w.fault = "aa_link" THEN
        [err |-> FALSE, profile |-> [loaded |-> FALSE, link |-> prof.link],
         cmds |-> <<UnloadCmd, LinkCmd>>, msgs |-> <<>>]
    ELSE [err |-> FALSE, profile |-> [loaded |-> FALSE, link |-> TRUE],
          cmds |-> <<UnloadCmd, LinkCmd>>, msgs |-> <<>>]

DisableRsyslogProfile(prof, w) ==
    IF w.fault = "aa_lookpath" THEN [err |-> TRUE, profile |-> prof, cmds |-> <<>>, msgs |-> <<>>]
    ELSE IF w.fault = "aa_unload" THEN
        [err |-> TRUE, profile |-> prof, cmds |-> <<UnloadCmd>>, msgs |-> <<UnloadCmd>>]
    ELSE IF w.fault = "aa_link" THEN
        [err |-> TRUE, profile |-> [loaded |-> FALSE, link |-> prof.link],
         cmds |-> <<UnloadCmd, LinkCmd>>, msgs |-> <<LinkCmd>>]
    ELSE [err |-> FALSE, profile |-> [loaded |-> FALSE, link |-> TRUE],
          cmds |-> <<UnloadCmd, LinkCmd>>, msgs |-> <<>>]

EnableRsyslogProfile(prof, w) ==
    IF w.fault = "aa_lookpath" THEN [err |-> TRUE, profile |-> prof, cmds |-> <<>>, msgs |-> <<>>]
    ELSE IF w.fault = "aa_unlink" THEN [err |-> TRUE, profile |-> prof, cmds |-> <<>>, msgs |-> <<>>]
    ELSE IF w.fault = "aa_load" THEN
        [err |-> TRUE, profile |-> [loaded |-> prof.loaded, link |-> FALSE],
         cmds |-> <<LoadCmd>>, msgs |-> <<LoadCmd>>]
    ELSE [err |-> FALSE, profile |-> [loaded |-> TRUE, link |-> FALSE],
          cmds |-> <<LoadCmd>>, msgs |-> <<>>]

\* a toggle that is not asked for
NoToggle(prof) == [err |-> FALSE, profile |-> prof, cmds |-> <<>>, msgs |-> <<>>]

\* the host as the file and service steps see it once the toggle is over
HostOf(w) ==
    [w EXCEPT !.fault = IF @ \in DisableFaults \cup EnableFaults THEN "none" ELSE @]

\* the hosts of a command-line call: a caller that is not root cannot change
\* the profile
CliWorlds(faults, toggleFaults, unprivFaults, apparmor, root) ==
    {w \in RsyslogWorlds(faults \cup (IF apparmor THEN toggleFaults ELSE {})) :
        (apparmor /\ ~root) => w.fault \in unprivFaults}

(***************************************************************************)
(* rsyslog omprog drop-in: /etc/rsyslog.d/99-gopersist.conf                *)
(***************************************************************************)
OmprogInstallFaults == {"none", "mkdir", "open", "write"}
OmprogRemoveFaults == {"none", "stat", "delete"}

\* rsyslog.Install(cfg)
RsyslogInstall(cfg, root, ex, content) ==
    LET same(res) == [res |-> res, exists |-> ex, file |-> content, cmds |-> <<>>,
                      post |-> cfg, msgs |-> <<>>]
    IN  [w \in RsyslogWorlds(OmprogInstallFaults) |->
          IF ~root THEN same("privilege")
          ELSE IF cfg = <<>> THEN same("empty_cfg")
          ELSE IF w.fault = "mkdir" THEN same("mkdir")
          ELSE LET wr == WriteFile(content, ex, cfg, w.fault)
                   rl == reloadRsyslog(w)
               IN  IF wr.err THEN
                       [res |-> "write", exists |-> wr.exists, file |-> wr.file,
                        cmds |-> <<>>, post |-> cfg, msgs |-> <<>>]
                   ELSE [res |-> IF rl.err THEN "reload" ELSE "ok", exists |-> TRUE,
                         file |-> wr.file, cmds |-> rl.cmds, post |-> cfg,
                         msgs |-> rl.msgs]]

\* rsyslog.Remove()
RsyslogRemove(root, ex, content) ==
    LET same(res) == [res |-> res, exists |-> ex, file |-> content, cmds |-> <<>>,
                      post |-> <<>>, msgs |-> <<>>]
    IN  [w \in RsyslogWorlds(OmprogRemoveFaults) |->
          IF ~root THEN same("privilege")
          ELSE IF ~ex THEN same("not_present")
          ELSE IF w.fault = "stat" THEN same("stat")
          ELSE IF w.fault = "delete" THEN same("delete")
          ELSE LET rl == reloadRsyslog(w)
               IN  [res |-> IF rl.err THEN "reload" ELSE "ok", exists |-> FALSE,
                    file |-> <<>>, cmds |-> rl.cmds, post |-> <<>>, msgs |-> rl.msgs]]

(***************************************************************************)
(* docker-compose: <output>/docker-compose.yml                             *)
(***************************************************************************)
ComposeWorlds(faults) ==
    {w \in [fault : faults, docker : BOOLEAN, dockerOk : BOOLEAN,
            compose : BOOLEAN, composeOk : BOOLEAN] :
        w.fault # "none" => (w.docker /\ w.dockerOk /\ w.compose /\ w.composeOk)}

DockerCmd(action) ==
    IF action = "up" THEN "docker compose -f docker-compose.yml up -d"
    ELSE "docker compose -f docker-compose.yml down"

DockerComposeCmd(action) ==
    IF action = "up" THEN "docker-compose -f docker-compose.yml up -d"
    ELSE "docker-compose -f docker-compose.yml down"

\* runCompose: err, the commands run in order, and msgs, the commands whose
\* failure the returned error quotes (errs joined with "; ")
runCompose(w, action) ==
    LET first == IF w.docker THEN <<DockerCmd(action)>> ELSE <<>>
    IN  IF w.docker /\ w.dockerOk THEN [err |-> FALSE, cmds |-> first, msgs |-> <<>>]
        ELSE IF w.compose THEN
            IF w.composeOk
            THEN [err |-> FALSE, cmds |-> first \o <<DockerComposeCmd(action)>>, msgs |-> <<>>]
            ELSE [err |-> TRUE, cmds |-> first \o <<DockerComposeCmd(action)>>,
                  msgs |-> first \o <<DockerComposeCmd(action)>>]
        ELSE [err |-> TRUE, cmds |-> first, msgs |-> first]

ComposeInstallFaults == {"none", "mkdir", "open", "write"}
ComposeRemoveFaults == {"none", "stat", "delete", "rmdir"}

\* dockercompose.Install(cfg, outputDir)
ComposeInstall(cfg, outputDir, ex, content) ==
    LET same(res) == [res |-> res, exists |-> ex, file |-> content, cmds |-> <<>>,
                      post |-> cfg, msgs |-> <<>>]
    IN  [w \in ComposeWorlds(ComposeInstallFaults) |->
          IF cfg = <<>> THEN same("empty_cfg")
          ELSE IF TrimSpace(outputDir) = <<>> THEN same("no_dir")
          ELSE IF w.fault = "mkdir" THEN same("mkdir")
          ELSE LET wr == WriteFile(content, ex, cfg, w.fault)
                   rc == runCompose(w, "up")
               IN  IF wr.err THEN
                       [res |-> "write", exists |-> wr.exists, file |-> wr.file,
                        cmds |-> <<>>, post |-> cfg, msgs |-> <<>>]
                   ELSE [res |-> IF rc.err THEN "compose" ELSE "ok", exists |-> TRUE,
                         file |-> wr.file, cmds |-> rc.cmds, post |-> cfg,
                         msgs |-> rc.msgs]]

\* the compose file deleted before compose down is run
ComposeRemoveDeleteFirst(outputDir, ex, content) ==
    LET same(res) == [res |-> res, exists |-> ex, file |-> content, cmds |-> <<>>,
                      post |-> <<>>, msgs |-> <<>>]
    IN  [w \in ComposeWorlds(ComposeRemoveFaults) |->
          IF TrimSpace(outputDir) = <<>> THEN same("no_dir")
          ELSE IF ~ex THEN same("not_found")
          ELSE IF w.fault = "stat" THEN same("stat")
          ELSE IF w.fault = "delete" THEN same("delete")
          ELSE LET rc == runCompose(w, "down")
               IN  [res |-> IF rc.err THEN "compose"
                            ELSE IF w.fault = "rmdir" THEN "cleanup" ELSE "ok",
                    exists |-> FALSE, file |-> <<>>, cmds |-> rc.cmds,
                    post |-> <<>>, msgs |-> rc.msgs]]

\* dockercompose.Remove(outputDir)
ComposeRemove(outputDir, ex, content) ==
    LET same(res) == [res |-> res, exists |-> ex, file |-> content, cmds |-> <<>>,
                      post |-> <<>>, msgs |-> <<>>]
    IN  [w \in ComposeWorlds(ComposeRemoveFaults) |->
          IF TrimSpace(outputDir) = <<>> THEN same("no_dir")
          ELSE IF ~ex THEN same("not_found")
          ELSE IF w.fault = "stat" THEN same("stat")
          ELSE LET rc == runCompose(w, "down")
                   kept(res) == [res |-> res, exists |-> ex, file |-> content,
                                 cmds |-> rc.cmds, post |-> <<>>, msgs |-> rc.msgs]
                   gone(res) == [res |-> res, exists |-> FALSE, file |-> <<>>,
                                 cmds |-> rc.cmds, post |-> <<>>, msgs |-> <<>>]
               IN  IF rc.err THEN kept("compose")
                   ELSE IF w.fault = "delete" THEN kept("delete")
                   ELSE IF w.fault = "rmdir" THEN gone("cleanup")
                   ELSE gone("ok")]

(***************************************************************************)
(* The command line: rsyslog, rsyslog-omprog and docker-compose            *)
(***************************************************************************)
\* the ConfigParams runRsyslogOmprog builds from its flags
OmprogDefaults(f) ==
    [InputFile |-> f.in, Tag |-> <<"a", "c", "c", "e", "s", "s">>,
     Severity |-> <<"i", "n", "f", "o">>, Facility |-> <<"l", "o", "c", "a", "l", "6">>,
     AddMetadata |-> TRUE, PollingInterval |-> 10, FilterByTag |-> TRUE,
     FilterContains |-> f.trigger, FilterRegex |-> <<>>,
     ProgramPath |-> f.payload, ProgramArgs |-> f.payloadArgs,
     UseRuleset |-> TRUE, RulesetName |-> <<"e", "v", "e", "n", "t", "_", "r", "o", "u", "t", "e", "r">>,
     StateFile |-> <<>>]

\* a call that stopped before it looked at the host
Stopped(res, ex, content, prof) ==
    [w \in {NoWorld} |->
        [res |-> res, exists |-> ex, file |-> content, cmds |-> <<>>,
         post |-> content, profile |-> prof, errs |-> <<>>]]

\* the error of the shell calls quotes what reloadRsyslog's error quotes
WithMsgs(out, w) ==
    [res |-> out.res, exists |-> out.exists, file |-> out.file, cmds |-> out.cmds,
     post |-> out.post,
     msgs |-> IF out.res = "reload" THEN reloadRsyslog(w).msgs ELSE <<>>]

\* the toggle first; the install or the remove only when the toggle returned nil
Gated(t, out, ex, content) ==
    IF t.err
    THEN [res |-> "apparmor", exists |-> ex, file |-> content, cmds |-> t.cmds,
          post |-> out.post, profile |-> t.profile, errs |-> t.msgs]
    ELSE [res |-> out.res, exists |-> out.exists, file |-> out.file,
          cmds |-> t.cmds \o out.cmds, post |-> out.post, profile |-> t.profile,
          errs |-> out.msgs]

\* runRsyslogShell --install [--apparmor]
RsyslogShellInstall(p, apparmor, root, ex, content, prof) ==
    LET cfg == RenderShellConfig(p)
        inst == InstallShell(cfg.text, root, ex, content)
    IN  IF cfg.err # "" THEN Stopped("validation", ex, content, prof)
        ELSE [w \in CliWorlds(ShellInstallFaults, DisableFaults,
                              {"aa_lookpath", "aa_unload"}, apparmor, root) |->
                LET t == IF apparmor THEN DisableRsyslogProfile(prof, w) ELSE NoToggle(prof)
                IN  Gated(t, WithMsgs(inst[HostOf(w)], HostOf(w)), ex, content)]

\* runRsyslogShell --remove [--apparmor]
RsyslogShellRemove(apparmor, root, ex, content, prof) ==
    LET rm == RemoveShell(root, ex, content)
    IN  [w \in CliWorlds(ShellRemoveFaults, EnableFaults, EnableFaults, apparmor, root) |->
            LET t == IF apparmor THEN EnableRsyslogProfile(prof, w) ELSE NoToggle(prof)
            IN  Gated(t, WithMsgs(rm[HostOf(w)], HostOf(w)), ex, content)]

\* runRsyslogOmprog --install [--apparmor]
RsyslogOmprogInstall(f, apparmor, root, ex, content, prof) ==
    LET cfg == OmprogRenderConfig(OmprogDefaults(f))
        inst == RsyslogInstall(cfg.text, root, ex, content)
    IN  IF cfg.err # "" THEN Stopped("validation", ex, content, prof)
        ELSE [w \in CliWorlds(OmprogInstallFaults, DisableFaults,
                              {"aa_lookpath", "aa_unload"}, apparmor, root) |->
                LET t == IF apparmor THEN DisableRsyslogProfile(prof, w) ELSE NoToggle(prof)
                IN  Gated(t, inst[HostOf(w)], ex, content)]

\* runRsyslogOmprog --remove [--apparmor]
RsyslogOmprogRemove(apparmor, root, ex, content, prof) ==
    LET rm == RsyslogRemove(root, ex, content)
    IN  [w \in CliWorlds(OmprogRemoveFaults, EnableFaults, EnableFaults, apparmor, root) |->
            LET t == IF apparmor THEN EnableRsyslogProfile(prof, w) ELSE NoToggle(prof)
            IN  Gated(t, rm[HostOf(w)], ex, content)]

\* runDockerCompose --install
DockerComposeInstall(p, outputDir, ex, content, prof) ==
    LET cfg == ComposeRenderConfig(p)
        inst == ComposeInstall(cfg.text, outputDir, ex, content)
    IN  IF \/ TrimSpace(p.PayloadCommand) = <<>>
           \/ TrimSpace(p.Image) = <<>>
           \/ TrimSpace(p.ServiceName) = <<>>
           \/ TrimSpace(outputDir) = <<>>
           \/ cfg.err # ""
        THEN Stopped("validation", ex, content, prof)
        ELSE [w \in ComposeWorlds(ComposeInstallFaults) |->
                Gated(NoToggle(prof), inst[w], ex, content)]

\* runDockerCompose --remove
DockerComposeRemove(outputDir, ex, content, prof) ==
    LET rm == ComposeRemove(outputDir, ex, content)
    IN  IF TrimSpace(outputDir) = <<>> THEN Stopped("validation", ex, content, prof)
        ELSE [w \in ComposeWorlds(ComposeRemoveFaults) |->
                Gated(NoToggle(prof), rm[w], ex, content)]

(***************************************************************************)
(* The command line as a state machine                                     *)
(***************************************************************************)
CliVariants == {"shell", "omprog", "compose"}

CliShellParams ==
    { [Trigger |-> <<"t">>, Payload |-> <<"/", "p">>],
      [Trigger |-> <<>>, Payload |-> <<"/", "p">>] }

OmprogFlags ==
    { [in |-> <<"/", "l">>, payload |-> <<"/", "p">>, payloadArgs |-> <<>>, trigger |-> <<"t">>],
      [in |-> <<"/", "l">>, payload |-> <<>>, payloadArgs |-> <<>>, trigger |-> <<"t">>] }

\* the flags of an earlier run
EarlierOmprogFlags ==
    [in |-> <<"/", "l">>, payload |-> <<"/", "q">>, payloadArgs |-> <<"-", "v">>, trigger |-> <<"u">>]

ComposeFlags ==
    { [ServiceName |-> <<"s", "-", "1">>, Image |-> <<"i">>, PayloadCommand |-> <<"/", "c">>],
      [ServiceName |-> <<"a", " ", "b">>, Image |-> <<"i">>, PayloadCommand |-> <<"/", "c">>] }

\* the flags of an earlier run
EarlierComposeFlags ==
    [ServiceName |-> <<"s", "-", "1">>, Image |-> <<"i">>, PayloadCommand |-> <<"/", "d">>]

OutputDirs == {<<"/", "o">>, <<" ">>}

\* the target file before the first call: the administrator's own text, or a
\* fragment an earlier run left there
CliContents(v) ==
    CASE v = "shell"   -> {PlainLine \o <<NL>>, ForeignShellLine \o <<NL>>}
      [] v = "omprog"  ->
            {PlainLine \o <<NL>>, OmprogRenderConfig(OmprogDefaults(EarlierOmprogFlags)).text}
      [] v = "compose" ->
            {PlainLine \o <<NL>>, ComposeRenderConfig(EarlierComposeFlags).text}

NoneCli ==
    [op |-> "none", res |-> "", params |-> NoParams, apparmor |-> FALSE,
     pre |-> <<>>, preExists |-> FALSE, preProfile |-> Enforced, post |-> <<>>]

InitCli ==
    /\ variant \in CliVariants
    /\ isRoot \in (IF variant = "compose" THEN {TRUE} ELSE BOOLEAN)
    /\ exists \in BOOLEAN
    /\ file \in (IF exists THEN CliContents(variant) ELSE {<<>>})
    /\ profile = Enforced
    /\ errs = <<>>
    /\ race = NoRace
    /\ last = NoneCli
    /\ cmds = <<>>
    /\ world = NoWorld
    /\ nops = 0
    /\ rfun = "none"
    /\ rin = <<>>
    /\ rout = [err |-> "", text |-> <<>>]

\* what the caller observes, with the --apparmor flag and the profile as it
\* was before the call
CalledCli(op, params, apparmor, out) ==
    [op |-> op, res |-> out.res, params |-> params, apparmor |-> apparmor,
     pre |-> file, preExists |-> exists, preProfile |-> profile, post |-> out.post]

\* nixpersist rsyslog --install [--apparmor]
RsyslogShellInstallStep ==
    /\ variant = "shell"
    /\ nops < MaxOps
    /\ \E p \in CliShellParams, apparmor \in BOOLEAN :
         LET outs == RsyslogShellInstall(p, apparmor, isRoot, exists, file, profile)
         IN  \E w \in DOMAIN outs :
               LET Effect(out) ==
                   /\ world' = w
                   /\ exists' = out.exists
                   /\ file' = out.file
                   /\ cmds' = out.cmds
                   /\ profile' = out.profile
                   /\ errs' = out.errs
                   /\ last' = CalledCli("install", p, apparmor, out)
               IN  Effect(outs[w])
    /\ nops' = nops + 1
    /\ UNCHANGED <<variant, isRoot, rfun, rin, rout, race>>

\* nixpersist rsyslog --remove [--apparmor]
RsyslogShellRemoveStep ==
    /\ variant = "shell"
    /\ nops < MaxOps
    /\ \E apparmor \in BOOLEAN :
         LET outs == RsyslogShellRemove(apparmor, isRoot, exists, file, profile)
         IN  \E w \in DOMAIN outs :
               LET Effect(out) ==
                   /\ world' = w
                   /\ exists' = out.exists
                   /\ file' = out.file
                   /\ cmds' = out.cmds
                   /\ profile' = out.profile
                   /\ errs' = out.errs
                   /\ last' = CalledCli("remove", NoParams, apparmor, out)
               IN  Effect(outs[w])
    /\ nops' = nops + 1
    /\ UNCHANGED <<variant, isRoot, rfun, rin, rout, race>>

\* nixpersist rsyslog-omprog --install [--apparmor]
RsyslogOmprogInstallStep ==
    /\ variant = "omprog"
    /\ nops < MaxOps
    /\ \E f \in OmprogFlags, apparmor \in BOOLEAN :
         LET outs == RsyslogOmprogInstall(f, apparmor, isRoot, exists, file, profile)
         IN  \E w \in DOMAIN outs :
               LET Effect(out) ==
                   /\ world' = w
                   /\ exists' = out.exists
                   /\ file' = out.file
                   /\ cmds' = out.cmds
                   /\ profile' = out.profile
                   /\ errs' = out.errs
                   /\ last' = CalledCli("install", f, apparmor, out)
               IN  Effect(outs[w])
    /\ nops' = nops + 1
    /\ UNCHANGED <<variant, isRoot, rfun, rin, rout, race>>

\* nixpersist rsyslog-omprog --remove [--apparmor]
RsyslogOmprogRemoveStep ==
    /\ variant = "omprog"
    /\ nops < MaxOps
    /\ \E apparmor \in BOOLEAN :
         LET outs == RsyslogOmprogRemove(apparmor, isRoot, exists, file, profile)
         IN  \E w \in DOMAIN outs :
               LET Effect(out) ==
                   /\ world' = w
                   /\ exists' = out.exists
                   /\ file' = out.file
                   /\ cmds' = out.cmds
                   /\ profile' = out.profile
                   /\ errs' = out.errs
                   /\ last' = CalledCli("remove", NoParams, apparmor, out)
               IN  Effect(outs[w])
    /\ nops' = nops + 1
    /\ UNCHANGED <<variant, isRoot, rfun, rin, rout, race>>

\* nixpersist docker-compose --install
DockerComposeInstallStep ==
    /\ variant = "compose"
    /\ nops < MaxOps
    /\ \E p \in ComposeFlags, dir \in OutputDirs :
         LET outs == DockerComposeInstall(p, dir, exists, file, profile)
         IN  \E w \in DOMAIN outs :
               LET Effect(out) ==
                   /\ world' = w
                   /\ exists' = out.exists
                   /\ file' = out.file
                   /\ cmds' = out.cmds
                   /\ profile' = out.profile
                   /\ errs' = out.errs
                   /\ last' = CalledCli("install", p, FALSE, out)
               IN  Effect(outs[w])
    /\ nops' = nops + 1
    /\ UNCHANGED <<variant, isRoot, rfun, rin, rout, race>>

\* nixpersist docker-compose --remove
DockerComposeRemoveStep ==
    /\ variant = "compose"
    /\ nops < MaxOps
    /\ \E dir \in OutputDirs :
         LET outs == DockerComposeRemove(dir, exists, file, profile)
         IN  \E w \in DOMAIN outs :
               LET Effect(out) ==
                   /\ world' = w
                   /\ exists' = out.exists
                   /\ file' = out.file
                   /\ cmds' = out.cmds
                   /\ profile' = out.profile
                   /\ errs' = out.errs
                   /\ last' = CalledCli("remove", NoParams, FALSE, out)
               IN  Effect(outs[w])
    /\ nops' = nops + 1
    /\ UNCHANGED <<variant, isRoot, rfun, rin, rout, race>>

NextCli ==
    \/ RsyslogShellInstallStep
    \/ RsyslogShellRemoveStep
    \/ RsyslogOmprogInstallStep
    \/ RsyslogOmprogRemoveStep
    \/ DockerComposeInstallStep
    \/ DockerComposeRemoveStep

SpecCli == InitCli /\ [][NextCli]_vars

(***************************************************************************)
(* Two Install calls running at once against one file, on a host where no  *)
(* call fails. Neither InstallShell nor the CustomLog Install takes a lock, *)
(* so the system calls of the two interleave freely.                        *)
(***************************************************************************)
Procs == {1, 2}

RaceShellParams ==
    { [Trigger |-> <<"t">>, Payload |-> <<"/", "p">>],
      [Trigger |-> <<"u", "u">>, Payload |-> <<"/", "q">>] }

RaceApacheParams == { [Payload |-> <<"/", "p">>], [Payload |-> <<"/", "q", "q">>] }

\* the fragment a call renders from its parameters
RaceCfg(v, p) ==
    IF v = "shell" THEN RenderShellConfig(p).text ELSE ApacheLineRenderConfig(p).text

\* the content a call means the file to hold, built from what it read
RaceBuffer(v, seen, cfg) ==
    LET sep == IF Len(seen) > 0 /\ ~HasSuffix(seen, <<NL>>) THEN <<NL>> ELSE <<>>
        fin == IF v = "apacheLine" /\ ~HasSuffix(cfg, <<NL>>) THEN <<NL>> ELSE <<>>
    IN  seen \o sep \o cfg \o fin

\* write(2) of data at offset 0 of a file opened without O_APPEND
WriteAtStart(content, data) ==
    IF Len(data) >= Len(content) THEN data
    ELSE data \o SubSeq(content, Len(data) + 1, Len(content))

InitRace ==
    /\ variant \in {"shell", "apacheLine"}
    /\ isRoot = TRUE
    /\ exists \in (IF variant = "shell" THEN BOOLEAN ELSE {TRUE})
    /\ file \in (IF exists THEN InitialContents(variant) ELSE {<<>>})
    /\ last = None
    /\ cmds = <<>>
    /\ world = NoWorld
    /\ nops = 0
    /\ rfun = "none"
    /\ rin = <<>>
    /\ rout = [err |-> "", text |-> <<>>]
    /\ profile = Enforced
    /\ errs = <<>>
    /\ \E p1, p2 \in (IF variant = "shell" THEN RaceShellParams ELSE RaceApacheParams) :
          race = [orig |-> file, writer |-> 0,
                  proc |-> [i \in Procs |->
                            [pc |-> "start", params |-> IF i = 1 THEN p1 ELSE p2,
                             seen |-> <<>>, res |-> ""]]]

\* os.ReadFile and the duplicate check against what was read
RaceRead ==
    \E i \in Procs :
        LET me == race.proc[i]
            seen == IF exists THEN file ELSE <<>>
            cfg == RaceCfg(variant, me.params)
            dup == IF variant = "shell" THEN hasShellDirective(seen, TrimSpace(cfg))
                   ELSE containsCustomLogDirective(seen, TrimSpace(cfg))
        IN  /\ me.pc = "start"
            /\ race' = [race EXCEPT !.proc[i] =
                           IF dup THEN [me EXCEPT !.pc = "done", !.res = "conflict"]
                           ELSE [me EXCEPT !.pc = "read", !.seen = seen]]
            /\ UNCHANGED <<variant, isRoot, exists, file, last, cmds, world, nops,
                           rfun, rin, rout, profile, errs>>

\* os.OpenFile: O_CREATE|O_WRONLY|O_APPEND in InstallShell, and the
\* O_CREATE|O_WRONLY|O_TRUNC that os.WriteFile opens with in Install
RaceOpen ==
    \E i \in Procs :
        LET me == race.proc[i]
        IN  /\ me.pc = "read"
            /\ exists' = TRUE
            /\ file' = IF variant = "shell" /\ exists THEN file ELSE <<>>
            /\ race' = [race EXCEPT !.proc[i].pc = "opened",
                                    !.writer = IF variant = "shell" THEN @ ELSE i]
            /\ UNCHANGED <<variant, isRoot, last, cmds, world, nops,
                           rfun, rin, rout, profile, errs>>

\* the first write on the handle: InstallShell's separating newline when what
\* it read did not end in one, otherwise its fragment; Install's whole buffer
RaceWrite ==
    \E i \in Procs :
        LET me == race.proc[i]
            cfg == RaceCfg(variant, me.params)
            needNL == Len(me.seen) > 0 /\ ~HasSuffix(me.seen, <<NL>>)
        IN  /\ me.pc = "opened"
            /\ file' = IF variant = "shell"
                       THEN file \o (IF needNL THEN <<NL>> ELSE cfg)
                       ELSE WriteAtStart(file, RaceBuffer(variant, me.seen, cfg))
            /\ race' = [race EXCEPT !.writer = i,
                                    !.proc[i] = IF variant = "shell" /\ needNL
                                                THEN [me EXCEPT !.pc = "newline"]
                                                ELSE [me EXCEPT !.pc = "done", !.res = "ok"]]
            /\ UNCHANGED <<variant, isRoot, exists, last, cmds, world, nops,
                           rfun, rin, rout, profile, errs>>

\* InstallShell's second write: the fragment after the separating newline
RaceWriteCfg ==
    \E i \in Procs :
        LET me == race.proc[i]
        IN  /\ me.pc = "newline"
            /\ file' = file \o RaceCfg(variant, me.params)
            /\ race' = [race EXCEPT !.writer = i,
                                    !.proc[i] = [me EXCEPT !.pc = "done", !.res = "ok"]]
            /\ UNCHANGED <<variant, isRoot, exists, last, cmds, world, nops,
                           rfun, rin, rout, profile, errs>>

NextRace == RaceRead \/ RaceOpen \/ RaceWrite \/ RaceWriteCfg

SpecRace == InitRace /\ [][NextRace]_vars

(***************************************************************************)
(* main: dispatch on the command line and the exit status of the process   *)
(***************************************************************************)
\* command lines by what pflag and the handlers make of them: the flags before
\* the module name, the module name, the arguments after it, and whether the
\* operation the module runs fails on this host
CommandLines ==
    [root : {"none", "version", "help", "unknown_flag"},
     module : {"", "rsyslog-omprog", "rsyslog", "docker-compose", "apache-log",
               "help", "other"},
     margs : {"none", "help", "unknown_flag", "positional", "two_actions",
              "modifier_alone", "flags_only", "check", "install", "remove"},
     fails : BOOLEAN]

\* runRsyslogOmprog, runRsyslogShell, runDockerCompose, runApacheLog: the error
\* returned, "" for nil
runModule(module, margs, fails) ==
    LET renders == module \in {"rsyslog-omprog", "rsyslog"}
    IN  IF margs = "help" THEN ""
        ELSE IF margs = "unknown_flag" THEN "parse"
        ELSE IF margs = "positional" THEN "unexpected arguments"
        ELSE IF margs = "none" THEN ""
        ELSE IF margs = "two_actions" THEN "choose at most one"
        ELSE IF margs = "modifier_alone" /\ renders THEN "requires --install or --remove"
        ELSE IF margs \in {"modifier_alone", "flags_only"} /\ ~renders THEN ""
        ELSE IF margs = "check" THEN ""
        ELSE IF fails THEN "operation failed"
        ELSE ""

\* main: what the process does and the status it exits with
main(c) ==
    IF c.root = "help" THEN [err |-> "", text |-> <<>>, code |-> 0]
    ELSE IF c.root = "unknown_flag" THEN [err |-> "parse", text |-> <<>>, code |-> 2]
    ELSE IF c.root = "version" THEN [err |-> "", text |-> <<>>, code |-> 0]
    ELSE IF c.module \in {"", "help"} THEN [err |-> "", text |-> <<>>, code |-> 0]
    ELSE LET err == IF c.module = "other" THEN "unknown module"
                    ELSE runModule(c.module, c.margs, c.fails)
         IN  [err |-> err, text |-> <<>>, code |-> IF err # "" THEN 1 ELSE 0]

MainCall ==
    /\ rfun = "none"
    /\ \E c \in CommandLines :
         /\ rin' = c
         /\ rout' = main(c)
    /\ rfun' = "main"
    /\ UNCHANGED <<variant, isRoot, exists, file, last, cmds, world, nops, profile, errs, race>>

SpecMain == InitRender /\ [][MainCall]_vars

(***************************************************************************)
(* The removal functions on their own: removeShellDirective,               *)
(* removeCustomLogDirective, removeShellBlock and the cut made by the       *)
(* marker revision of apachelog.Remove                                      *)
(***************************************************************************)
\* bytes.TrimRight(s, "\r\n")
RECURSIVE TrimRightCRLF(_)
TrimRightCRLF(s) ==
    IF s # <<>> /\ s[Len(s)] \in {CR, NL} THEN TrimRightCRLF(SubSeq(s, 1, Len(s) - 1)) ELSE s

removeShellBlock(content) ==
    LET start == Index(content, shellMarkerStart)
        rel == IF start = -1 THEN -1
               ELSE Index(Slice(content, start, Len(content)), shellMarkerEnd)
        end == SkipNewlines(content, rel + start + Len(shellMarkerEnd))
        prev == IF start - 1 > 0 /\ content[start - 1] = CR THEN start - 2 ELSE start - 1
        cutStart ==
            IF start > 0 /\ content[start] = NL /\ (prev = 0 \/ content[prev] = NL)
            THEN prev ELSE start
        updated == TrimRightCRLF(Slice(content, 0, cutStart) \o Slice(content, end, Len(content)))
    IN  IF start = -1 \/ rel = -1 THEN [text |-> content, found |-> FALSE]
        ELSE [text |-> IF Len(updated) > 0 THEN updated \o <<NL>> ELSE updated,
              found |-> TRUE]

\* the text Remove of the marker revision means to write, found when it got
\* as far as writing
apacheRemoveBlock(content) ==
    LET w == CHOOSE v \in ApacheWorlds(ApacheFaults) : v.fault = "none"
        out == ApacheRemove(FALSE, TRUE, content)[w]
    IN  [text |-> out.post, found |-> out.res = "ok"]

\* the files the functions are tried on: up to MaxLines + 2 pieces of the pool,
\* with and without a final newline
FilesOf(pool) ==
    {Join(ls) \o t : ls \in SeqsUpTo(pool, MaxLines + 2), t \in {<<>>, <<NL>>}}

RemoveShellDirectiveCall ==
    /\ rfun = "none"
    /\ \E c \in FilesOf({PlainLine, <<>>, <<" ">>, ForeignShellLine}) :
         /\ rin' = c
         /\ rout' = removeShellDirective(c)
    /\ rfun' = "removeShellDirective"
    /\ UNCHANGED <<variant, isRoot, exists, file, last, cmds, world, nops, profile, errs, race>>

RemoveCustomLogDirectiveCall ==
    /\ rfun = "none"
    /\ \E c \in FilesOf({PlainLine, <<>>, <<" ">>, ForeignCustomLog}) :
         /\ rin' = c
         /\ rout' = removeCustomLogDirective(c)
    /\ rfun' = "removeCustomLogDirective"
    /\ UNCHANGED <<variant, isRoot, exists, file, last, cmds, world, nops, profile, errs, race>>

RemoveShellBlockCall ==
    /\ rfun = "none"
    /\ \E c \in FilesOf({PlainLine, <<>>,
                       Join(<<shellMarkerStart, ForeignShellLine, shellMarkerEnd>>)}) :
         /\ rin' = c
         /\ rout' = removeShellBlock(c)
    /\ rfun' = "removeShellBlock"
    /\ UNCHANGED <<variant, isRoot, exists, file, last, cmds, world, nops, profile, errs, race>>

ApacheRemoveBlockCall ==
    /\ rfun = "none"
    /\ \E c \in FilesOf({PlainLine, <<>>,
                       Join(<<startMarker, ForeignCustomLog, endMarker>>)}) :
         /\ rin' = c
         /\ rout' = apacheRemoveBlock(c)
    /\ rfun' = "apacheRemoveBlock"
    /\ UNCHANGED <<variant, isRoot, exists, file, last, cmds, world, nops, profile, errs, race>>

NextRemoval ==
    \/ RemoveShellDirectiveCall
    \/ RemoveCustomLogDirectiveCall
    \/ RemoveShellBlockCall
    \/ ApacheRemoveBlockCall

SpecRemoval == InitRender /\ [][NextRemoval]_vars

(***************************************************************************)
(* Diagnostics: the Check functions of the three packages.  h is the host:  *)
(* what each lookup, stat and command answers during the call.              *)
(***************************************************************************)
apachelogCheck(h) ==
    LET n1 == IF h.root THEN <<>> ELSE <<"not running as root">>
        n2 == IF h.stat = "ok" THEN (IF h.writable THEN <<>> ELSE <<"cannot open for write">>)
              ELSE IF h.stat = "missing" THEN <<"configuration does not exist">>
              ELSE <<"failed to stat">>
        n3 == IF h.systemctl
              THEN (IF h.isActiveOk THEN <<>> ELSE <<"systemctl is-active failed">>)
              ELSE <<"systemctl binary not found">>
        n4 == IF h.apache2ctl \/ h.apachectl THEN <<>> ELSE <<"apachectl/apache2ctl not found">>
    IN  [RunningAsRoot |-> h.root,
         ConfigExists |-> h.stat = "ok",
         ConfigWritable |-> h.stat = "ok" /\ h.writable,
         SystemctlAvailable |-> h.systemctl,
         ServiceActive |-> h.systemctl /\ h.isActiveOk /\ h.output = "active",
         ApacheCtlAvailable |-> h.apache2ctl \/ h.apachectl,
         Notes |-> n1 \o n2 \o n3 \o n4]

\* rsyslog.Check: checkRsyslogInstalled, checkRsyslogRunning,
\* checkAppArmorInstalled, and checkRsyslogAppArmorProtected when both of the
\* last two answered true
rsyslogCheck(h) ==
    LET installed == h.rsyslogd \/ h.conf \/ (h.systemctl /\ h.unit)
        bySystemd == h.systemctl /\ h.active
        byPgrep == h.pgrep /\ h.procFound
        running == bySystemd \/ byPgrep
        aa == h.aaStatus \/ h.aaParser \/ h.sysfs
        labelRead == h.pgrep /\ h.pidFound /\ h.label # "none"
        protected ==
            IF labelRead THEN h.label = "confined"
            ELSE h.aaStatus /\ h.listed \in {"enforce", "complain"}
        n1 == IF h.rsyslogd THEN <<"found rsyslogd in PATH">>
              ELSE IF h.conf THEN <<"found /etc/rsyslog.conf">>
              ELSE IF installed THEN <<"systemd reports rsyslog.service present">>
              ELSE <<>>
        n2 == IF bySystemd THEN <<"rsyslog.service is active (systemd)">>
              ELSE IF byPgrep THEN <<"rsyslogd process found via pgrep">>
              ELSE <<>>
        n3 == IF h.aaStatus THEN <<"found apparmor_status in PATH">>
              ELSE IF h.aaParser THEN <<"found apparmor_parser in PATH">>
              ELSE IF h.sysfs THEN <<"AppArmor sysfs entries present">>
              ELSE <<>>
        n4 == IF ~(aa /\ running) THEN <<>>
              ELSE IF labelRead THEN <<"rsyslogd label: " \o h.label>>
              ELSE IF protected THEN <<"apparmor_status lists rsyslogd in " \o h.listed \o " mode">>
              ELSE <<>>
    IN  [RsyslogInstalled |-> installed,
         RsyslogRunning |-> running,
         AppArmorInstalled |-> aa,
         RsyslogAppArmorProtected |-> aa /\ running /\ protected,
         Notes |-> n1 \o n2 \o n3 \o n4]

\* the docker group looked up for root as for anyone else
dockercomposeCheckAnyUser(h) ==
    [DockerAvailable |-> h.docker,
     ComposeAvailable |-> (h.docker /\ h.composeV2) \/ h.dockerCompose,
     UserIsRoot |-> h.root,
     UserInDockerGroup |-> h.group = "member",
     DockerPsSucceeded |-> h.docker /\ h.psOk,
     Images |-> IF h.docker THEN h.images ELSE <<>>,
     Containers |-> IF h.docker THEN h.containers ELSE <<>>,
     Notes |-> <<>>]

dockercomposeCheck(h) ==
    LET n1 == IF h.root THEN <<"running as root">> ELSE <<>>
        n2 == IF h.root THEN <<>>
              ELSE IF h.group = "member" THEN <<"current user is a member of the docker group">>
              ELSE IF h.group = "lookup failed" THEN <<"user lookup failed">>
              ELSE <<>>
        n3 == IF ~h.docker THEN <<>>
              ELSE IF h.psOk THEN <<"docker ps returned data">>
              ELSE <<"docker ps failed">>
    IN  [DockerAvailable |-> h.docker,
         ComposeAvailable |-> (h.docker /\ h.composeV2) \/ h.dockerCompose,
         UserIsRoot |-> h.root,
         UserInDockerGroup |-> ~h.root /\ h.group = "member",
         DockerPsSucceeded |-> h.docker /\ h.psOk,
         Images |-> IF h.docker THEN h.images ELSE <<>>,
         Containers |-> IF h.docker THEN h.containers ELSE <<>>,
         Notes |-> n1 \o n2 \o n3]

ApachelogCheckCall ==
    /\ rfun = "none"
    /\ \E h \in [root : BOOLEAN, stat : {"ok", "missing", "error"}, writable : BOOLEAN,
                 systemctl : BOOLEAN, isActiveOk : BOOLEAN, output : {"active", "inactive"},
                 apache2ctl : BOOLEAN, apachectl : BOOLEAN] :
         /\ rin' = h
         /\ rout' = apachelogCheck(h)
    /\ rfun' = "apachelog.Check"
    /\ UNCHANGED <<variant, isRoot, exists, file, last, cmds, world, nops, profile, errs, race>>

RsyslogCheckCall ==
    /\ rfun = "none"
    /\ \E h \in [rsyslogd : BOOLEAN, conf : BOOLEAN, systemctl : BOOLEAN, unit : BOOLEAN,
                 active : BOOLEAN, pgrep : BOOLEAN, procFound : BOOLEAN, pidFound : BOOLEAN,
                 aaStatus : BOOLEAN, aaParser : BOOLEAN, sysfs : BOOLEAN,
                 label : {"none", "unconfined", "confined"},
                 listed : {"none", "enforce", "complain"}] :
         /\ rin' = h
         /\ rout' = rsyslogCheck(h)
    /\ rfun' = "rsyslog.Check"
    /\ UNCHANGED <<variant, isRoot, exists, file, last, cmds, world, nops, profile, errs, race>>

DockercomposeCheckCall ==
    /\ rfun = "none"
    /\ \E h \in [docker : BOOLEAN, composeV2 : BOOLEAN, dockerCompose : BOOLEAN,
                 root : BOOLEAN, group : {"member", "not a member", "lookup failed"},
                 psOk : BOOLEAN, images : {<<>>, <<"img">>},
                 containers : {<<>>, <<"ctr">>}] :
         /\ rin' = h
         /\ rout' = dockercomposeCheck(h)
    /\ rfun' = "dockercompose.Check"
    /\ UNCHANGED <<variant, isRoot, exists, file, last, cmds, world, nops, profile, errs, race>>

NextCheck == ApachelogCheckCall \/ RsyslogCheckCall \/ DockercomposeCheckCall

SpecCheck == InitRender /\ [][NextCheck]_vars

(***************************************************************************)
(* Properties of Install and Remove                                        *)
(***************************************************************************)
\* the call returned after its file write: nil, or the reload/restart error
Wrote(res) == res \in {"ok", "reload", "restart"}

\* the reload (rsyslog) or the requested restart (apache) cannot succeed in w
ServiceFails(v, restart, w) ==
    IF v = "shell"
    THEN (~w.systemctl /\ ~w.service) \/ (~w.reloadOk /\ ~w.restartOk)
    ELSE restart /\ (~w.systemctl \/ ~w.restartOk)

\* the directive-shaped lines of the exact-line revisions
Shaped(v, l) == IF v = "shell" THEN isShellDirective(l) ELSE isCustomLogDirective(l)

\* the line Install of an exact-line revision writes for params p
InstalledLine(v, p) ==
    TrimSpace(IF v = "shell" THEN RenderShellConfig(p).text
              ELSE ApacheLineRenderConfig(p).text)

HasLine(content, l) == \E i \in 1..Len(Split(content)) : Split(content)[i] = l

\* content with a final newline added and trailing blank lines dropped
Normalised(content) ==
    LET kept == DropTrailingBlank(Split(content))
    IN  IF kept = <<>> THEN <<>> ELSE Join(kept) \o <<NL>>

\* non-blank lines, exactly one final newline, nothing a Remove would take
\* for a fragment
PlainConfig(content) ==
    LET lines == Split(content)
    IN  /\ Len(lines) >= 2
        /\ lines[Len(lines)] = <<>>
        /\ \A i \in 1..(Len(lines) - 1) :
             /\ TrimSpace(lines[i]) # <<>>
             /\ ~isCustomLogDirective(lines[i])
        /\ ~Contains(content, startMarker)
        /\ ~Contains(content, endMarker)

\* C1: a second Install with the same params into the same file changes
\* nothing - the file is byte-identical, no reload or restart command is run -
\* and, unless the directory or the file cannot be read, it returns the
\* 'already present' conflict error (apache log pipe, both revisions, and the
\* rsyslog shell directive).
C1_SecondInstallConflicts ==
    [][(/\ last.op = "install"
        /\ Wrote(last.res)
        /\ last'.op = "install"
        /\ last'.params = last.params)
       => (/\ file' = file
           /\ exists' = exists
           /\ cmds' = <<>>
           /\ (world'.fault \notin {"mkdir", "stat", "read"} => last'.res = "conflict"))]_vars

C1_Witness ==
    /\ variant = "shell"
    /\ nops = 2
    /\ last.op = "install"
    /\ last.res = "conflict"
    /\ file = last.pre
    /\ hasShellDirective(file, InstalledLine("shell", last.params))

\* C2: for the apache log pipe, for every valid payload and every file made of
\* non-blank lines ending in exactly one newline with no fragment in it,
\* Install followed by Remove (both without restart) leaves the file
\* byte-for-byte as it was before Install.
C2_InstallRemoveRestores ==
    [][(/\ variant \in {"apache", "apacheLine"}
        /\ last.op = "install"
        /\ last.res = "ok"
        /\ ~last.restart
        /\ last.preExists
        /\ PlainConfig(last.pre)
        /\ last'.op = "remove"
        /\ ~last'.restart
        /\ world'.fault = "none")
       => (last'.res = "ok" /\ file' = last.pre)]_vars

\* C3: for the exact-line mechanisms, for all valid params and every file with
\* no line equal to the rendered directive, Remove after Install leaves the
\* original content up to newline normalisation (a final newline added,
\* trailing blank lines dropped).
C3_RemoveAfterInsertNormalises ==
    [][(/\ variant \in {"shell", "apacheLine"}
        /\ last.op = "install"
        /\ last.res = "ok"
        /\ last'.op = "remove"
        /\ world'.fault = "none")
       => file' = Normalised(last.pre)]_vars

\* C4: Remove deletes the fragment Install wrote and nothing else: after
\* Install and a Remove that rewrote the file, every directive-shaped line the
\* file held before Install is still there, and the installed directive is
\* gone.
C4_RemoveTakesOnlyInstalled ==
    [][(/\ variant \in {"shell", "apacheLine"}
        /\ last.op = "install"
        /\ last.res = "ok"
        /\ last'.op = "remove"
        /\ Wrote(last'.res))
       => (/\ \A i \in 1..Len(Split(last.pre)) :
                Shaped(variant, Split(last.pre)[i]) => HasLine(file', Split(last.pre)[i])
           /\ ~HasLine(file', InstalledLine(variant, last.params)))]_vars

\* C5: Remove on an existing file in which nothing was ever installed returns
\* 'not found', leaves the file as it was and runs no reload or restart
\* command.
C5_RemoveWithoutInstallNotFound ==
    (/\ nops = 1
     /\ last.op = "remove"
     /\ last.preExists
     /\ isRoot
     /\ world.fault = "none"
     /\ ~Contains(last.pre, startMarker))
    => (/\ last.res = "not_found"
        /\ file = last.pre
        /\ cmds = <<>>)

C7_NeverPartial ==
    last.op # "none" => (file = last.pre \/ file = last.post)

(***************************************************************************)
(* Properties of the renderers                                             *)
(***************************************************************************)
\* what validation is said to reject, of a payload as given
Refused(payload) ==
    \/ payload = <<>>
    \/ \A i \in 1..Len(payload) : IsSpace(payload[i])
    \/ \E i \in 1..Len(payload) : payload[i] \in {NL, QUOTE, "<", ">"}
    \/ payload[1] # "/"

Embedded(fn, p) ==
    CASE fn = "shell"   -> {p.Trigger, p.Payload}
      [] fn = "omprog"  -> {p.InputFile, p.Tag, p.Severity, p.Facility, p.StateFile,
                            p.FilterContains, p.FilterRegex, p.ProgramPath, p.ProgramArgs}
                           \cup (IF p.UseRuleset THEN {p.RulesetName} ELSE {})
      [] fn = "compose" -> {p.ServiceName, p.Image, p.PayloadCommand}
      [] OTHER          -> {p.Payload}

\* C9: for every mechanism, render fails whenever a parameter it embeds in the
\* generated text contains a newline, so that no value of a rendered fragment
\* spans more than one line; checked for the newlines that make a value span
\* lines, those between two of its non-blank characters.
C9_RenderRefusesNewlines ==
    (/\ rfun \in {"shell", "omprog", "apache", "apacheLine", "compose"}
     /\ \E v \in Embedded(rfun, rin) : \E i \in 1..Len(TrimSpace(v)) : TrimSpace(v)[i] = NL)
    => rout.err # ""

\* each backslash doubled, each double quote preceded by one backslash
RECURSIVE Escaped(_)
Escaped(s) ==
    IF s = <<>> THEN <<>>
    ELSE (CASE Head(s) = BSLASH -> <<BSLASH, BSLASH>>
            [] Head(s) = QUOTE  -> <<BSLASH, QUOTE>>
            [] OTHER            -> <<Head(s)>>) \o Escaped(Tail(s))

\* C10: escapeQuotes turns each backslash of its input into two backslashes
\* and each double quote into a backslash followed by the quote.
C10_EscapeQuotesEscapes ==
    rfun = "escapeQuotes" => rout.text = Escaped(rin)

\* C11: for the shell-directive mechanism, render of a valid trigger t and
\* payload p is exactly the one line `:msg, contains, "t" ^p` (p trimmed)
\* followed by one newline and nothing else; trigger "hacker" and payload
\* /path/to/payload give `:msg, contains, "hacker" ^/path/to/payload\n`.
\* Stated for triggers without a double quote, which are written as given.
C11_ShellRenderIsOneLine ==
    (/\ rfun \in {"shell", "shellMarker"}
     /\ rout.err = ""
     /\ \A i \in 1..Len(rin.Trigger) : rin.Trigger[i] # QUOTE)
    => rout.text = <<":", "m", "s", "g", ",", " ", "c", "o", "n", "t", "a", "i", "n", "s", ",", " ", QUOTE>> \o rin.Trigger \o <<QUOTE, " ", "^">>
                   \o TrimSpace(rin.Payload) \o <<NL>>

\* the omprog parameters other than the predicates are complete
OmprogComplete(p) ==
    /\ p.InputFile # <<>>
    /\ p.ProgramPath # <<>>
    /\ p.Tag # <<>>
    /\ (p.UseRuleset => p.RulesetName # <<>>)

\* the 0-based place of the first s in t (-1: none)
FirstAt(t, s) ==
    LET hits == {i \in 0..(Len(t) - Len(s)) : SubSeq(t, i + 1, i + Len(s)) = s}
    IN  IF hits = {} THEN -1 ELSE CHOOSE i \in hits : \A j \in hits : i <= j

\* the 0-based places of the three predicates in a rendered fragment (-1: absent)
TagAt(t) == FirstAt(t, <<"$", "s", "y", "s", "l", "o", "g", "t", "a", "g", " ", "c", "o", "n", "t", "a", "i", "n", "s", " ", "'">>)
MsgAt(t) == FirstAt(t, <<"(", "$", "m", "s", "g", " ", "c", "o", "n", "t", "a", "i", "n", "s", " ", "'">>)
ReAt(t) == FirstAt(t, <<"r", "e", "_", "m", "a", "t", "c", "h", "(", "$", "m", "s", "g", ",", " ">>)

\* text t holds s right before place i
EndsAt(t, i, s) == i >= Len(s) /\ Slice(t, i - Len(s), i) = s

\* the predicates of p appear in t in the fixed order tag, substring, pattern,
\* the substring joined to a tag by " and ", the pattern joined to what
\* precedes it by " or "
JoinedInOrder(p, t) ==
    /\ (TagAt(t) # -1) = p.FilterByTag
    /\ (MsgAt(t) # -1) = (p.FilterContains # <<>>)
    /\ (ReAt(t) # -1) = (p.FilterRegex # <<>>)
    /\ (p.FilterByTag /\ p.FilterContains # <<>>)
         => (TagAt(t) < MsgAt(t) /\ EndsAt(t, MsgAt(t), <<"'", ")", " ", "a", "n", "d", " ">>))
    /\ (~p.FilterByTag /\ p.FilterContains # <<>>)
         => ~EndsAt(t, MsgAt(t), <<" ", "a", "n", "d", " ">>)
    /\ (p.FilterRegex # <<>> /\ p.FilterContains # <<>>)
         => (MsgAt(t) < ReAt(t) /\ EndsAt(t, ReAt(t), <<"'", ")", " ", "o", "r", " ">>))
    /\ (p.FilterRegex # <<>> /\ p.FilterContains = <<>> /\ p.FilterByTag)
         => (TagAt(t) < ReAt(t) /\ EndsAt(t, ReAt(t), <<"'", ")", " ", "o", "r", " ">>))
    /\ (p.FilterRegex # <<>> /\ p.FilterContains = <<>> /\ ~p.FilterByTag)
         => ~EndsAt(t, ReAt(t), <<" ", "o", "r", " ">>)

\* C12 (as amended): rsyslog.RenderConfig puts the supplied predicates in the
\* fixed order tag-match, 'and' substring-match, 'or' pattern-match, and it
\* returns an error and no fragment exactly when neither a substring nor a
\* pattern is supplied - a tag-match alone is refused.
C12_PredicatesJoinedInOrder ==
    (rfun = "omprog" /\ OmprogComplete(rin))
    => /\ (rout.err # "") = (rin.FilterContains = <<>> /\ rin.FilterRegex = <<>>)
       /\ (rout.err # "") = (rout.text = <<>>)
       /\ rout.err = "" => JoinedInOrder(rin, rout.text)

C12_Witness ==
    /\ rfun = "omprog"
    /\ rin.FilterByTag
    /\ rin.FilterContains = <<"x">>
    /\ rin.FilterRegex = <<"r">>
    /\ rin.Tag = <<"g">>
    /\ -1 # FirstAt(rout.text,
                <<"i", "f", " ", "(", "$", "s", "y", "s", "l", "o", "g", "t", "a", "g", " ", "c", "o", "n", "t", "a", "i", "n", "s", " ", "'", "g", "'", ")", " ", "a", "n", "d", " ", "(", "$", "m", "s", "g", " ", "c", "o", "n", "t", "a", "i", "n", "s", " ", "'", "x", "'", ")", " ", "o", "r", " ", "r", "e", "_", "m", "a", "t", "c", "h", "(", "$", "m", "s", "g", ",", " ">>
                \o <<QUOTE, "r", QUOTE>> \o <<")", " ", "t", "h", "e", "n", " ", "{">>)

\* C12 (as stated): rsyslog.RenderConfig combines whichever subset of the
\* predicates is supplied in that order, and returns an error and no fragment
\* when no predicate at all is supplied (and only then).
C12_AnySubsetRenders ==
    (rfun = "omprog" /\ OmprogComplete(rin))
    => /\ (rout.err # "")
            = (~rin.FilterByTag /\ rin.FilterContains = <<>> /\ rin.FilterRegex = <<>>)
       /\ (rout.err # "") = (rout.text = <<>>)
       /\ rout.err = "" => JoinedInOrder(rin, rout.text)

(***************************************************************************)
(* Properties of the service reload                                        *)
(***************************************************************************)
SystemctlCmds == <<"systemctl reload rsyslog", "systemctl restart rsyslog">>
ServiceCmds == <<"service rsyslog reload", "service rsyslog restart">>

\* the commands of the manager a host offers: systemctl when on PATH, else service
ManagerCmds(w) ==
    IF w.systemctl THEN SystemctlCmds ELSE IF w.service THEN ServiceCmds ELSE <<>>

\* C13: the reload of rsyslog runs `systemctl reload rsyslog` first and
\* `systemctl restart rsyslog` only after that reload failed; the `service
\* rsyslog reload` / `service rsyslog restart` pair is run in the same way and
\* only when systemctl is not on PATH; the first command that succeeds ends
\* the chain with a nil error and no later command is run.
C13_ReloadChainOrder ==
    (variant = "shell" /\ Wrote(last.res)) =>
        LET m == ManagerCmds(world)
        IN  /\ \A i \in 1..Len(cmds) : cmds[i] \in {ServiceCmds[1], ServiceCmds[2]} => ~world.systemctl
            /\ Len(cmds) <= 2
            /\ m # <<>> => (Len(cmds) >= 1 /\ cmds[1] = m[1])
            /\ m = <<>> => cmds = <<>>
            /\ Len(cmds) = 2 => (~world.reloadOk /\ cmds[2] = m[2])
            /\ (m # <<>> /\ world.reloadOk) => (cmds = <<m[1]>> /\ last.res = "ok")
            /\ (m # <<>> /\ ~world.reloadOk) => (Len(cmds) = 2 /\ (last.res = "ok" <=> world.restartOk))

\* the reload failed, the restart fallback was run and succeeded
C13_Witness ==
    /\ variant = "shell"
    /\ last.res = "ok"
    /\ ~world.reloadOk
    /\ cmds = SystemctlCmds
    /\ file = last.post
    /\ file # last.pre

(***************************************************************************)
(* Properties of the command line and of the drop-ins                      *)
(***************************************************************************)
ToggleCmds == {UnloadCmd, LinkCmd, LoadCmd}

\* the reload / compose commands the last call ran, in order
ControllerCmds == SelectSeq(cmds, LAMBDA c : c \notin ToggleCmds)

\* what the host answers to a reload / compose command
CmdOk(c, w) ==
    CASE c \in {SystemctlCmds[1], ServiceCmds[1]} -> w.reloadOk
      [] c \in {SystemctlCmds[2], ServiceCmds[2]} -> w.restartOk
      [] c \in {DockerCmd("up"), DockerCmd("down")} -> w.dockerOk
      [] c \in {DockerComposeCmd("up"), DockerComposeCmd("down")} -> w.composeOk

\* C14: a call of the service controller (reloadRsyslog, runCompose) returns
\* nil exactly when one of the commands it attempted succeeded, and when all
\* of them failed the returned error quotes the failure of each attempted
\* command, in the order they were attempted.
C14_ErrorQuotesEveryAttempt ==
    (last.op # "none" /\ ControllerCmds # <<>>) =>
        LET ctl == ControllerCmds
            oneOk == \E i \in 1..Len(ctl) : CmdOk(ctl[i], world)
        IN  /\ (last.res \notin {"reload", "compose"}) <=> oneOk
            /\ ~oneOk => errs = ctl

\* C15: for the apache log pipe, an Install or Remove called with restart
\* true whose file write succeeded runs exactly one external command,
\* `systemctl restart apache2`, after the write, provided systemctl is on
\* PATH (without systemctl it runs none); with restart false, or when the call
\* fails before or in the write, no external command is run.
C15_OneRestartAfterWrite ==
    (variant \in {"apache", "apacheLine"} /\ last.op # "none") =>
        IF last.restart /\ Wrote(last.res) /\ world.systemctl
        THEN cmds = <<"systemctl restart apache2">> /\ exists /\ file = last.post
        ELSE cmds = <<>>

C15_Witness ==
    /\ variant = "apache"
    /\ last.op = "install"
    /\ last.restart
    /\ last.res = "ok"
    /\ cmds = <<"systemctl restart apache2">>
    /\ file = last.post
    /\ file # last.pre

\* C15 as stated: the one restart command is run whenever restart is true and
\* the write succeeded.
C15_RestartWheneverAsked ==
    (variant \in {"apache", "apacheLine"} /\ last.op # "none") =>
        IF last.restart /\ Wrote(last.res)
        THEN cmds = <<"systemctl restart apache2">> /\ exists /\ file = last.post
        ELSE cmds = <<>>

\* C16: Install against a configuration file the tool does not own
\* (apache2.conf, rsyslog.conf) that does not exist returns an error and
\* does not create the file (checked on hosts where no system call fails for
\* another reason).
C16_MissingConfigRefused ==
    (last.op = "install" /\ ~last.preExists /\ world.fault = "none")
    => (last.res # "ok" /\ ~exists)

\* C17: for every mechanism that writes a path owned by the system
\* (rsyslog.conf, apache2.conf), Install and Remove called on an existing
\* file with valid parameters by a user who is not root return the privilege
\* error, before any file is created, opened or written and before any
\* command is run.
C17_UnprivilegedRefusedFirst ==
    (~isRoot /\ last.op # "none" /\ last.res # "validation" /\ last.preExists)
    => (/\ last.res = "privilege"
        /\ file = last.pre
        /\ exists = last.preExists
        /\ cmds = <<>>)

\* the host refused the profile change the last call asked for
ToggleFails == last.apparmor /\ world.fault \in DisableFaults \cup EnableFaults

\* C18: with --apparmor, when the profile toggle fails
\* (DisableRsyslogProfile on install, EnableRsyslogProfile on remove) the
\* command returns an error, the target file is untouched and rsyslog is not
\* reloaded; without --apparmor no toggle command is run and the profile is
\* left as it was.
C18_ToggleFailureAborts ==
    (variant \in {"shell", "omprog"} /\ last.op # "none" /\ last.res # "validation") =>
        /\ ToggleFails =>
              (/\ last.res = "apparmor"
               /\ file = last.pre
               /\ exists = last.preExists
               /\ ControllerCmds = <<>>)
        /\ ~last.apparmor =>
              (/\ \A i \in 1..Len(cmds) : cmds[i] \notin ToggleCmds
               /\ profile = last.preProfile)

\* ln failed after the profile was unloaded; the install that would have
\* changed the file was not made
C18_Witness ==
    /\ isRoot
    /\ last.op = "install"
    /\ last.apparmor
    /\ world.fault = "aa_link"
    /\ last.res = "apparmor"
    /\ cmds = <<UnloadCmd, LinkCmd>>
    /\ file = last.pre
    /\ last.post # last.pre

\* the last call was a Remove that failed and left the file, fragment
\* included, as it was
RemovalFailed ==
    /\ last.op = "remove"
    /\ last.res \notin {"ok", "reload", "not_found", "not_present", "apparmor"}
    /\ last.preExists
    /\ exists
    /\ file = last.pre
    /\ IF variant = "shell" THEN removeShellDirective(file).found ELSE file # <<>>

\* C19: with --apparmor the profile is re-enabled only after the removal:
\* a `--remove --apparmor` run whose removal fails never leaves the profile,
\* disabled before the run, re-enabled with the fragment still installed.
C19_EnableOnlyAfterRemoval ==
    (variant \in {"shell", "omprog"} /\ last.apparmor /\ RemovalFailed
     /\ ~last.preProfile.loaded)
    => ~profile.loaded

\* the file holds what an Install of the mechanism wrote
HoldsFragment(v, content) ==
    IF v = "omprog"
    THEN \E f \in OmprogFlags \cup {EarlierOmprogFlags} :
            /\ OmprogRenderConfig(OmprogDefaults(f)).err = ""
            /\ content = OmprogRenderConfig(OmprogDefaults(f)).text
    ELSE \E p \in ComposeFlags \cup {EarlierComposeFlags} :
            /\ ComposeRenderConfig(p).err = ""
            /\ content = ComposeRenderConfig(p).text

\* C20: for the drop-ins the tool owns (the omprog drop-in, the
\* docker-compose file), Install looks for an existing installation first:
\* when the target already holds an installed fragment, Install returns the
\* 'already installed' conflict error and leaves the content as it was.
C20_DropInInstallConflicts ==
    (/\ variant \in {"omprog", "compose"}
     /\ last.op = "install"
     /\ last.res # "validation"
     /\ isRoot
     /\ world.fault = "none"
     /\ last.preExists
     /\ HoldsFragment(variant, last.pre))
    => (last.res = "conflict" /\ file = last.pre)

(***************************************************************************)
(* Properties of the delimited block                                       *)
(***************************************************************************)
\* the start marker is there and no end marker comes after it
HalfBlock(content) ==
    /\ Contains(content, startMarker)
    /\ ~Contains(Slice(content, Index(content, startMarker), Len(content)), endMarker)

\* C21: for the delimited-block mechanism, a file holding the start marker
\* with no end marker after it counts as not installed for Install, which
\* goes on to write, while Remove on such a file fails with the 'end marker
\* missing' error, distinct from 'not found', and leaves the file unchanged.
C21_HalfBlockHandling ==
    (/\ variant = "apache"
     /\ last.op # "none"
     /\ last.res # "validation"
     /\ world.fault = "none"
     /\ last.preExists
     /\ HalfBlock(last.pre))
    => IF last.op = "install"
       THEN Wrote(last.res) /\ file = last.post
       ELSE last.res = "end_marker_missing" /\ file = last.pre

BothInstalled == \A i \in Procs : race.proc[i].pc = "done" /\ race.proc[i].res = "ok"

\* both calls read the file before either one touched it
ReadTheOriginal == \A i \in Procs : race.proc[i].seen = race.orig

\* C22: when two Install calls run at once, both pass the duplicate check on
\* the original file and both return success, the file ends as exactly what
\* the last writer produced: the original content plus that one fragment.
C22_LastWriterWins ==
    (variant \in {"shell", "apacheLine"} /\ race.writer # 0 /\ BothInstalled /\ ReadTheOriginal)
    => file = RaceBuffer(variant, race.orig, RaceCfg(variant, race.proc[race.writer].params))

\* C23: the process exits 0 on success, 1 on every operational failure and 2
\* on every argument-parsing failure, an unknown or malformed flag given to a
\* module subcommand included.
C23_ExitCodes ==
    rfun = "main" =>
        rout.code = (IF rout.err = "" THEN 0
                     ELSE IF rout.err = "parse" THEN 2
                     ELSE 1)

Blank(l) == TrimSpace(l) = <<>>

\* the lines of the file handed to the exact-line function, and which of them
\* the function takes for a directive
GivenLines == Split(rin)

Matches ==
    {i \in 1..Len(GivenLines) :
        IF rfun = "removeShellDirective" THEN isShellDirective(GivenLines[i])
        ELSE isCustomLogDirective(GivenLines[i])}

FirstMatch == CHOOSE i \in Matches : \A j \in Matches : i <= j

\* the given lines without the first match, and without the line after it
\* when that one is blank
WithoutMatch ==
    LET i == FirstMatch
        k == IF i < Len(GivenLines) /\ Blank(GivenLines[i + 1]) THEN 2 ELSE 1
    IN  SubSeq(GivenLines, 1, i - 1) \o SubSeq(GivenLines, i + k, Len(GivenLines))

\* how many of those lines are left once the blank ones at the end are gone
LastKept ==
    LET N == {j \in 1..Len(WithoutMatch) : ~Blank(WithoutMatch[j])}
    IN  IF N = {} THEN 0 ELSE CHOOSE j \in N : \A m \in N : m <= j

\* C24: exact-line removal deletes the first matching line, and the line right
\* after it if and only if that line is blank, trims the blank lines at the
\* end, and returns the other lines unchanged and in order, as a text that is
\* empty or ends in exactly one newline; without a match it returns its input
\* and found = FALSE.
C24_ExactLineRemoval ==
    rfun \in {"removeShellDirective", "removeCustomLogDirective"} =>
        IF Matches = {} THEN ~rout.found /\ rout.text = rin
        ELSE /\ rout.found
             /\ rout.text = IF LastKept = 0 THEN <<>>
                            ELSE Join(SubSeq(WithoutMatch, 1, LastKept)) \o <<NL>>
             /\ \/ rout.text = <<>>
                \/ /\ HasSuffix(rout.text, <<NL>>)
                   /\ ~HasSuffix(rout.text, <<NL, NL>>)

\* a directive followed by a blank line and then by more lines, one of them a
\* second directive, was removed
C24_Witness ==
    /\ rfun \in {"removeShellDirective", "removeCustomLogDirective"}
    /\ rout.found
    /\ Cardinality(Matches) > 1
    /\ FirstMatch < Len(GivenLines) /\ Blank(GivenLines[FirstMatch + 1])
    /\ LastKept > 0
    /\ Len(WithoutMatch) > LastKept

\* the lines of a text, the empty piece after a final newline not counted
LinesOf(t) ==
    LET L == Split(t)
    IN  IF L[Len(L)] = <<>> THEN SubSeq(L, 1, Len(L) - 1) ELSE L

NonBlankLines(t) == SelectSeq(LinesOf(t), LAMBDA l : ~Blank(l))

BlankCount(t) == Len(LinesOf(t)) - Len(NonBlankLines(t))

\* where the block taken out began and where its end marker ended (0-based)
BlockStart ==
    Index(rin, IF rfun = "removeShellBlock" THEN shellMarkerStart ELSE startMarker)

BlockEnd ==
    LET e == IF rfun = "removeShellBlock" THEN shellMarkerEnd ELSE endMarker
    IN  BlockStart + Index(Slice(rin, BlockStart, Len(rin)), e) + Len(e)

\* C25: block removal deletes the start marker through the end marker and joins
\* what was before and after: the non-blank lines outside the block are kept
\* unchanged and in order, no blank line is added (none at the top when the
\* block opened the file), and the result ends in a newline iff it is non-empty.
C25_BlockRemoval ==
    (rfun \in {"removeShellBlock", "apacheRemoveBlock"} /\ rout.found) =>
        /\ NonBlankLines(rout.text) =
              NonBlankLines(Slice(rin, 0, BlockStart)) \o
              NonBlankLines(Slice(rin, BlockEnd, Len(rin)))
        /\ BlankCount(rout.text) <= BlankCount(rin)
        /\ (BlockStart = 0 /\ rout.text # <<>>) => Head(rout.text) # NL
        /\ rout.text # <<>> => HasSuffix(rout.text, <<NL>>)

\* C26: for every ShellConfigParams that passes Validate, a trigger holding a
\* double quote included, the line RenderShellConfig produces is recognised by
\* isShellDirective, so that removal from a file holding just that fragment
\* finds it and takes it out.
C26_RenderedLineIsLocated ==
    (rfun = "shell" /\ rout.err = "") =>
        /\ isShellDirective(TrimSpace(rout.text))
        /\ removeShellDirective(rout.text) = [text |-> <<>>, found |-> TRUE]

\* strings.Count: the non-overlapping occurrences of m in t
RECURSIVE Count(_, _)
Count(t, m) ==
    LET i == Index(t, m)
    IN  IF i = -1 THEN 0 ELSE 1 + Count(Slice(t, i + Len(m), Len(t)), m)

MarkerFree(t) == Count(t, startMarker) = 0 /\ Count(t, endMarker) = 0

MarkersPaired ==
    /\ Count(file, startMarker) <= 1
    /\ Count(file, endMarker) = Count(file, startMarker)
    /\ (last.op = "remove" /\ last.res = "ok") => MarkerFree(file)

\* the run began on a file without markers: no call made yet, or one call
\* whose file before it had none
BeganMarkerFree ==
    \/ nops = 0 /\ MarkerFree(file)
    \/ nops = 1 /\ MarkerFree(last.pre)

\* C27: marker revision of the apache mechanism: from a file without markers,
\* after any sequence of Install and Remove calls, succeeding or failing, the
\* file holds at most one start marker and as many end markers as start
\* markers, and none of either after a successful Remove.  Stated on the steps
\* of a run that began without markers: every such call leaves the markers so.
C27_MarkersStayPaired ==
    [][(variant = "apache" /\ BeganMarkerFree) => MarkersPaired']_vars

\* how often the character c stands in the text t
Occurrences(t, c) == Cardinality({i \in 1..Len(t) : t[i] = c})

\* the rendered text from its filter on: what follows the blank line that
\* closes the input(...) block, the last blank line of the text
FilterPart(t) ==
    LET ends == {i \in 1..(Len(t) - 2) : SubSeq(t, i, i + 2) = <<")", NL, NL>>}
        e == CHOOSE i \in ends : \A j \in ends : j <= i
    IN  SubSeq(t, e + 3, Len(t))

\* C28: for every ConfigParams that passes Validate, whatever the combination
\* of FilterByTag, FilterContains, FilterRegex and UseRuleset, the filter and
\* action part of the text of RenderConfig has as many closing as opening
\* parentheses and as many closing as opening braces.
C28_FilterIsBalanced ==
    (rfun = "omprog" /\ rout.err = "") =>
        /\ Occurrences(FilterPart(rout.text), "(") = Occurrences(FilterPart(rout.text), ")")
        /\ Occurrences(FilterPart(rout.text), "{") = Occurrences(FilterPart(rout.text), "}")

DownCmds == {DockerCmd("down"), DockerComposeCmd("down")}

C30_ReportsAreConsistent ==
    /\ rfun = "apachelog.Check" =>
          /\ rout.ConfigWritable => rout.ConfigExists
          /\ rout.ServiceActive => rout.SystemctlAvailable
          /\ rin.stat = "missing" => (~rout.ConfigExists /\ Len(rout.Notes) >= 1)
    /\ rfun = "rsyslog.Check" =>
          (rout.RsyslogAppArmorProtected => (rout.AppArmorInstalled /\ rout.RsyslogRunning))
    /\ rfun = "dockercompose.Check" =>
          /\ rout.UserInDockerGroup => ~rout.UserIsRoot
          /\ (rout.Images # <<>> \/ rout.Containers # <<>>) => rout.DockerAvailable

\* root is a member of the docker group on a host with docker and images, and
\* the report says root, not in the group, and lists the images
C30_Witness ==
    /\ rfun = "dockercompose.Check"
    /\ rin.root /\ rin.group = "member" /\ rin.docker
    /\ rout.UserIsRoot /\ ~rout.UserInDockerGroup /\ rout.Images # <<>>
====
